---- MODULE Spec2Model ----
(***************************************************************************)
(* A model of the RPC channel of KB1RD/rpcchannel (registry.ts): the       *)
(* liveness state machine, call(), generate(), receive() with its reply    *)
(* routing (maybeReturn), and the access decision.                         *)
(*                                                                         *)
(* One channel is modelled together with its environment: the transport    *)
(* (inbound messages are inputs, outbound messages are counted or logged), *)
(* the application handlers (their results are inputs) and the JavaScript  *)
(* job queue (a suspended continuation is a separate step).                *)
(***************************************************************************)
EXTENDS Integers, Sequences, FiniteSets, TLC

\* ------------------------------------------------------------------ bounds
MaxReq == 2          \* call()/generate() requests issued by the channel
MaxMsgs == 3         \* inbound messages processed while not CLOSED
MaxServe == 1        \* inbound requests that carry a return_addr
MaxItems == 2        \* items produced by one handler stream
MaxStarts == 2       \* start() calls that suspend on the first message
MaxKeepAlive == 2    \* heartbeats sent
MaxPulls == 1        \* next() pulls queued on one stream
MaxGens == 1         \* streams made by generate()
MaxSettles == 1      \* direct invocations of one correlation handler
MaxLen == 3          \* segments of an address given to an AddressMap
MaxPuts == 2         \* put() calls on one AddressMap
MaxChain == 3        \* sub-controllers of one ChainedAccessController
MaxDepth == 2        \* arrays and objects nested in a value to serialize

\* ------------------------------------------------------- program constants
INACTIVE == "INACTIVE"
ACTIVE == "ACTIVE"
CLOSED == "CLOSED"

ALLOW == "ALLOW"     \* AccessPolicy.ALLOW (true)
DENY == "DENY"       \* AccessPolicy.DENY (false)
NONE == "NONE"       \* OptAccessPolicy.NONE (null; undefined behaves alike)

Redacted == "Stack trace redacted for security reasons"

\* ------------------------------------------------------------------ values
\* JavaScript values, as far as the channel looks at them: their type, their
\* truthiness, whether they carry a name, and what the serializer does.
Undef == [t |-> "undefined", name |-> "", v |-> "", stack |-> ""]
Zero == [t |-> "number", name |-> "", v |-> "0", stack |-> ""]
Str(s) == [t |-> "string", name |-> "", v |-> s, stack |-> ""]
True == [t |-> "boolean", name |-> "", v |-> "true", stack |-> ""]
False == [t |-> "boolean", name |-> "", v |-> "false", stack |-> ""]
Func == [t |-> "function", name |-> "", v |-> "", stack |-> ""]
ErrorObj(n, m) == [t |-> "Error", name |-> n, v |-> m, stack |-> "at f (x.js:1)"]

isDefined(val) == val.t # "undefined"
Truthy(val) ==
  /\ val.t # "undefined"
  /\ ~(val.t = "number" /\ val.v = "0")
  /\ ~(val.t = "string" /\ val.v = "")
  /\ ~(val.t = "boolean" /\ val.v = "false")
HasName(val) == val.t \in {"Error", "object"} /\ val.name # ""

\* Arrays and plain objects hold their elements in items; a value with a
\* custom serialization hook holds in out what the hook returns.
Array(xs) == [t |-> "array", items |-> xs]
Object(xs) == [t |-> "record", items |-> xs]
Hooked(x) == [t |-> "hooked", out |-> x]
IsContainer(val) == val.t \in {"array", "record"}

\* rpcSerialize: a hooked value is what its hook returns, primitives pass,
\* symbols and functions throw, an Error becomes a plain object with a
\* redacted stack, arrays and plain objects are mapped element by element.
RECURSIVE CanSerialize(_)
CanSerialize(val) ==
  IF IsContainer(val)
    THEN \A i \in DOMAIN val.items : CanSerialize(val.items[i])
    ELSE val.t \notin {"function", "symbol"}

\* the Error branch handing the stack on
serializeError_WithStack(val) ==
  [t |-> "object", name |-> val.name, v |-> val.v, stack |-> val.stack]

\* the Error branch of rpcSerialize
serializeError(val) ==
  [t |-> "object", name |-> val.name, v |-> val.v, stack |-> Redacted]

RECURSIVE rpcSerialize(_)
rpcSerialize(val) ==
  IF val.t = "hooked" THEN val.out
  ELSE IF val.t = "Error" THEN serializeError(val)
  ELSE IF IsContainer(val)
    THEN [val EXCEPT !.items = [i \in DOMAIN @ |-> rpcSerialize(@[i])]]
  ELSE val

AccessDeniedError == ErrorObj("AccessDeniedError", "Access denied")
UndefinedFunctionError == ErrorObj("TypeError", "Function at address is undefined")
ChannelClosedError == ErrorObj("Error", "Channel closed")
InvalidChannelError ==
  ErrorObj("InvalidChannelError", "Return value was sent through the wrong channel")

\* ------------------------------------------------------------------- state
VARIABLES
  _state,           \* RpcChannel._state
  _opts,            \* RpcChannel._opts (timeout, keep_alive_interval, await_first_msg)
  default_policy,   \* RpcChannel.default_policy
  active_timeout,   \* RpcChannel.active_timeout is set (the timer is armed)
  active_keepalive, \* RpcChannel.active_keepalive is set (the interval is armed)
  start_waiting,    \* start() calls suspended on 'rawmessage' / 'close'
  start_ready,      \* start() calls woken whose continuation has not run yet
  _i_reg,           \* addresses with a handler in RpcChannel._i_reg.map
  reg,              \* addresses with a handler in RpcChannel.reg.map
  return_seq_id,    \* RpcHandlerRegistry.return_seq_id of _i_reg
  reg_return_seq_id, \* RpcHandlerRegistry.return_seq_id of reg
  timer_arms,       \* inactivity timers created by resetTimeout (history)
  live_timers,      \* the inactivity timers created and neither cleared nor
                    \* fired yet, each by its number of creation
  peer,             \* the RpcChannel at the other end of the transport
  delivered,        \* notices taken off the transport, per direction and kind
  table,            \* AddressMap.table of one address map: trie node -> default
  puts,             \* the put() calls made on it, in order (history)
  got,              \* what its last get() returned
  wc_values,        \* the capture sink handed to its last get(), afterwards
  access_chain,     \* ChainedAccessController.access_chain: what each
                    \* sub-controller answers
  default_ap,       \* ChainedAccessController.default_ap
  chain_result,     \* value and sub-controllers invoked of its last can()
  perms,            \* AutoFunctionAccessController.perms: the permissions held
  ac_result,        \* value of the last can() of a permission, lookup or
                    \* legacy controller, and whether a predicate was invoked
  stored,           \* the function a registry's map holds for an annotated
                    \* method, with the method and how it was registered
  allocs,           \* what nextSeqAddr returned, per registry, in order (history)
  close_listeners,  \* requests whose onChannelClose listens to 'close'
  calls,            \* the promise of every call()
  gens,             \* the stream of every generate()
  serv,             \* maybeReturn closures of inbound requests with return_addr
  nserv,            \* inbound requests with return_addr accepted so far
  nsent,            \* messages handed to c_send, per kind
  emitted,          \* events emitted, per event name
  invoked,          \* handler invocations by receive() (history)
  can_calls,        \* evaluations of RpcChannel.can by receive() (history)
  threw,            \* receive() calls that threw to their caller (history)
  op                \* the last operation (history)

vars == <<_state, _opts, default_policy, active_timeout, active_keepalive,
          start_waiting, start_ready, _i_reg, reg, return_seq_id,
          reg_return_seq_id, allocs, timer_arms, live_timers, close_listeners, calls, gens, serv, nserv, nsent, emitted, invoked,
          can_calls, threw, peer, delivered, table, puts, got,
          wc_values, access_chain, default_ap, chain_result, perms,
          ac_result, stored, op>>

chan == <<_state, _opts, default_policy, active_timeout, active_keepalive,
          start_waiting, start_ready, _i_reg, reg, return_seq_id,
          reg_return_seq_id, allocs, timer_arms, live_timers, close_listeners, calls, gens, serv, nserv, nsent, emitted, invoked,
          can_calls, threw>>

Cur == [_state |-> _state, _opts |-> _opts, default_policy |-> default_policy,
        active_timeout |-> active_timeout, active_keepalive |-> active_keepalive,
        start_waiting |-> start_waiting, start_ready |-> start_ready,
        _i_reg |-> _i_reg, reg |-> reg, return_seq_id |-> return_seq_id,
        reg_return_seq_id |-> reg_return_seq_id, allocs |-> allocs,
        timer_arms |-> timer_arms, live_timers |-> live_timers,
        close_listeners |-> close_listeners, calls |-> calls, gens |-> gens,
        serv |-> serv, nserv |-> nserv, nsent |-> nsent, emitted |-> emitted,
        invoked |-> invoked, can_calls |-> can_calls, threw |-> threw]

InstallChan(S) ==
  /\ _state' = S._state
  /\ _opts' = S._opts
  /\ default_policy' = S.default_policy
  /\ active_timeout' = S.active_timeout
  /\ active_keepalive' = S.active_keepalive
  /\ start_waiting' = S.start_waiting
  /\ start_ready' = S.start_ready
  /\ _i_reg' = S._i_reg
  /\ reg' = S.reg
  /\ return_seq_id' = S.return_seq_id
  /\ close_listeners' = S.close_listeners
  /\ calls' = S.calls
  /\ gens' = S.gens
  /\ serv' = S.serv
  /\ nserv' = S.nserv
  /\ nsent' = S.nsent
  /\ emitted' = S.emitted
  /\ invoked' = S.invoked
  /\ can_calls' = S.can_calls
  /\ reg_return_seq_id' = S.reg_return_seq_id
  /\ allocs' = S.allocs
  /\ timer_arms' = S.timer_arms
  /\ live_timers' = S.live_timers
  /\ threw' = S.threw

\* an operation of this channel: the peer and the transport stay as they are
amap == <<table, puts, got, wc_values>>
ctl == <<access_chain, default_ap, chain_result>>
acc == <<perms, ac_result, stored>>

Install(S) == InstallChan(S) /\ UNCHANGED <<peer, delivered, amap, ctl, acc>>

ReqIds == 0 .. (MaxReq - 1)
ServIds == 1 .. MaxServe

\* Addresses.  ['_','close'], ['_','keepalive'], ['_','ret','id<N>'],
\* ['_','stopgen', ...return_addr of the inbound request k], one application
\* address and one address nothing is ever registered at.
CloseAddr == <<"_", "close">>
KeepAliveAddr == <<"_", "keepalive">>
RetAddr(n) == <<"_", "ret", n>>
PeerRet(k) == <<"peer", k>>
StopAddr(k) == <<"_", "stopgen">> \o PeerRet(k)
AppAddr == <<"net", "app">>
MissingAddr == <<"net", "missing">>

\* ----------------------------------------------------------------- options
\* get opts(): defaults of the configured options
opts(S) ==
  LET timeout == S._opts.timeout
  IN  [timeout |-> timeout,
       keep_alive_interval |->
         IF S._opts.keep_alive_interval # 0
           THEN S._opts.keep_alive_interval ELSE timeout \div 2,
       await_first_msg |-> S._opts.await_first_msg]

\* c_send is invoked once with a message of this kind
c_send(S, kind) == [S EXCEPT !.nsent[kind] = @ + 1]

\* send(to, args) without return_addr: the arguments are serialized, which
\* can throw, then c_send is invoked whatever the state of the channel
RpcChannel_send(S, args) ==
  IF \A i \in DOMAIN args : CanSerialize(args[i])
    THEN [S |-> c_send(S, "request"), thrown |-> FALSE,
          args |-> [i \in DOMAIN args |-> rpcSerialize(args[i])]]
    ELSE [S |-> S, thrown |-> TRUE, args |-> <<>>]

\* ------------------------------------------------------------------ timers
\* clearTimeout(this.active_timeout) when the handle is set: the handle is
\* that of the timer created last
clearTimeout(S) ==
  IF S.active_timeout THEN [S EXCEPT !.live_timers = @ \ {S.timer_arms}] ELSE S

\* resetTimeout() that arms a new timer without clearing the one armed
resetTimeout_NoClear(S) ==
  LET S1 == [S EXCEPT !.active_timeout = FALSE]
  IN  IF S1._state # ACTIVE THEN S1
      ELSE IF opts(S1).timeout # 0
        THEN [S1 EXCEPT !.active_timeout = TRUE, !.timer_arms = @ + 1,
                        !.live_timers = @ \cup {S1.timer_arms + 1}]
        ELSE S1

resetTimeout(S) ==
  LET S1 == [clearTimeout(S) EXCEPT !.active_timeout = FALSE]
  IN  IF S1._state # ACTIVE THEN S1
      ELSE IF opts(S1).timeout # 0
        THEN [S1 EXCEPT !.active_timeout = TRUE, !.timer_arms = @ + 1,
                        !.live_timers = @ \cup {S1.timer_arms + 1}]
        ELSE S1

sendKeepAlive(S) ==
  IF opts(S).keep_alive_interval # 0 THEN c_send(S, "keepalive") ELSE S

resetKeepAlive(S) ==
  LET S1 == sendKeepAlive(S)
      S2 == [S1 EXCEPT !.active_keepalive = FALSE]
  IN  IF opts(S2).keep_alive_interval # 0
        THEN [S2 EXCEPT !.active_keepalive = TRUE]
        ELSE S2

setTimeout(S, timeout, keep_alive_interval) ==
  LET S1 == [S EXCEPT !._opts.timeout = timeout,
                      !._opts.keep_alive_interval = keep_alive_interval]
  IN  resetKeepAlive(resetTimeout(S1))

setAwaitFirstMsg(S, should) == [S EXCEPT !._opts.await_first_msg = should]

\* ---------------------------------------------------------------- promises
\* The promise returned by call(): st is "none" before the call exists, then
\* "pending", then "resolved" or "rejected" with val.  settles counts the
\* invocations of resolve/reject; late marks a call issued on a CLOSED channel.
NoCall == [st |-> "none", val |-> Undef, settles |-> 0, late |-> FALSE]

\* resolve()/reject() of a JavaScript promise: only the first one takes effect
settle(c, st, val) ==
  [c EXCEPT !.st = IF c.st = "pending" THEN st ELSE @,
            !.val = IF c.st = "pending" THEN val ELSE @,
            !.settles = @ + 1]

\* Object.assign(new ForwardedError(), error)
ForwardedError(error) == [error EXCEPT !.t = "ForwardedError"]

\* ----------------------------------------------------------------- streams
\* The stream returned by generate().  A frame is <<data, error, done>>.
\*   buffer     the closure variable buffer
\*   onNewData  the closure variable onNewData is set
\*   pc         where the body of gen is: "idle" (suspended at its start or
\*              at a yield), "waiting" (inside getNext, suspended on the
\*              promise whose resolver is onNewData), "woken" (that promise
\*              is resolved, getNext has not continued), "holding" (getNext
\*              has shifted a frame, the loop body has not run), "finished"
\*   queue      the requests (next/return/throw) the consumer has made that
\*              are not settled yet, the head being the one in progress
\*   recvd      the frames the correlation handler was invoked with (history)
\*   yielded    the values yielded to the consumer (history)
\*   stops      stopgen notices sent for this stream (history)
\*   result     how the stream ended: "none", "done" or "threw" by a frame,
\*              "return" or "throw" by the consumer's cancellation (history)
NoGen == [pc |-> "none", buffer |-> <<>>, onNewData |-> FALSE,
          held |-> <<Undef, Undef, FALSE>>, queue |-> <<>>,
          recvd |-> <<>>, yielded |-> <<>>, result |-> "none", late |-> FALSE,
          stops |-> 0]

DoneFrame == <<Undef, Undef, TRUE>>

\* ------------------------------------------------------- registry primitives
\* RpcHandlerRegistry.register / unregister on concrete addresses
register(map, address) == map \cup {address}
unregister(map, address) == map \ {address}

\* RpcHandlerRegistry.nextSeqAddr
nextSeqAddr_NoIncrement(S) ==
  [addr |-> RetAddr(S.return_seq_id),
   S |-> [S EXCEPT !.allocs._i_reg = Append(@, RetAddr(S.return_seq_id))]]

\* RpcHandlerRegistry.nextSeqAddr of _i_reg
nextSeqAddr(S) ==
  [addr |-> RetAddr(S.return_seq_id),
   S |-> [S EXCEPT !.return_seq_id = @ + 1,
                   !.allocs._i_reg = Append(@, RetAddr(S.return_seq_id))]]

\* RpcHandlerRegistry.nextSeqAddr of reg
reg_nextSeqAddr(S) ==
  [addr |-> RetAddr(S.reg_return_seq_id),
   S |-> [S EXCEPT !.reg_return_seq_id = @ + 1,
                   !.allocs.reg = Append(@, RetAddr(S.reg_return_seq_id))]]

\* ------------------------------------------------------------ close listeners
\* onDone of call(): unregisters through RpcChannel.unregister, which acts on
\* the application registry reg, and removes the 'close' listener
call_onDone(S, id) ==
  [S EXCEPT !.reg = unregister(@, RetAddr(id)),
            !.close_listeners = @ \ {id}]

\* onChannelClose of call() without the reject
call_onChannelClose_NoReject(S, id) == call_onDone(S, id)

\* onChannelClose of call()
call_onChannelClose(S, id) ==
  LET S1 == call_onDone(S, id)
  IN  [S1 EXCEPT !.calls[id] = settle(@, "rejected", ChannelClosedError)]

\* onDone of generate(): unregisters from _i_reg, removes the 'close' listener
gen_onDone(S, id) ==
  [S EXCEPT !._i_reg = unregister(@, RetAddr(id)),
            !.close_listeners = @ \ {id}]

\* onChannelClose of generate(): onDone, then a done frame is pushed; the
\* resolver onNewData is not invoked
gen_onChannelClose(S, id) ==
  LET S1 == gen_onDone(S, id)
  IN  [S1 EXCEPT !.gens[id].buffer = Append(@, DoneFrame)]

\* one listener of 'close'
onChannelClose(S, id) ==
  IF S.calls[id].st # "none" THEN call_onChannelClose(S, id)
  ELSE gen_onChannelClose(S, id)

\* closefunc of start(): every suspended start() is resolved and drops its
\* two listeners
closefunc(S) ==
  [S EXCEPT !.start_ready = @ + S.start_waiting, !.start_waiting = 0]

RECURSIVE EmitClose(_, _)
\* emit('close'): the listeners of 'close' run, each once
EmitClose(S, ids) ==
  IF ids = {} THEN S
  ELSE LET id == CHOOSE i \in ids : \A j \in ids : i <= j
       IN  EmitClose(onChannelClose(S, id), ids \ {id})

_stateChange(S, state) ==
  LET S1 == [S EXCEPT !._state = state, !.emitted.statechange = @ + 1]
  IN  CASE state = ACTIVE -> [S1 EXCEPT !.emitted.active = @ + 1]
        [] state = CLOSED ->
             EmitClose(closefunc([S1 EXCEPT !.emitted.close = @ + 1]),
                       S1.close_listeners)
        [] OTHER -> S1

\* ------------------------------------------------------------- start, close
\* start() after its await without the double check of _state
start_tail_NoRecheck(S) == resetTimeout(_stateChange(S, ACTIVE))

\* start() after its await (or without one): the double check and activation
start_tail(S) ==
  IF S._state # INACTIVE THEN S
  ELSE resetTimeout(_stateChange(S, ACTIVE))

\* start() that never waits for the first message
start_NoAwait(S) ==
  IF S._state # INACTIVE THEN S
  ELSE start_tail(S)

\* start() up to its await
start(S) ==
  IF S._state # INACTIVE THEN S
  ELSE IF opts(S).await_first_msg
    THEN [S EXCEPT !.start_waiting = @ + 1]
    ELSE start_tail(S)

\* close() without the early return on CLOSED
close_NoGuard(S, send) ==
  LET S1 == IF send THEN c_send(S, "close") ELSE S
      S2 == _stateChange(S1, CLOSED)
      S3 == [S2 EXCEPT !._i_reg = {}]
  IN  [clearTimeout(S3) EXCEPT !.active_timeout = FALSE,
                               !.active_keepalive = FALSE]

close(S, send) ==
  IF S._state = CLOSED THEN S
  ELSE LET S1 == IF send THEN c_send(S, "close") ELSE S
           S2 == _stateChange(S1, CLOSED)
           S3 == [S2 EXCEPT !._i_reg = {}]
       IN  [clearTimeout(S3) EXCEPT !.active_timeout = FALSE,
                                    !.active_keepalive = FALSE]

\* the callback of the inactivity timer
timeout_cb(S) == [close(S, TRUE) EXCEPT !.active_timeout = FALSE]

\* ------------------------------------------------------------ call, generate
\* call(to, args): args are SerializableData, to is not looked at locally
call(S) ==
  LET id == S.return_seq_id
      S1 == nextSeqAddr(S).S
      S2 == [S1 EXCEPT !._i_reg = register(@, RetAddr(id)),
                       !.calls[id] = [NoCall EXCEPT !.st = "pending",
                                                    !.late = (S._state = CLOSED)],
                       !.close_listeners = @ \cup {id}]
  IN  c_send(S2, "request")

\* the handler of call() without the test of the delivering channel
call_handler_NoChannelTest(S, id, channel, data, error) ==
  LET S1 == IF Truthy(error)
              THEN IF HasName(error)
                     THEN [S EXCEPT !.calls[id] =
                             settle(@, "rejected", ForwardedError(error))]
                     ELSE [S EXCEPT !.calls[id] = settle(@, "rejected", error)]
              ELSE [S EXCEPT !.calls[id] = settle(@, "resolved", data)]
  IN  call_onDone(S1, id)

\* the handler call() registers at its correlation address; channel is
\* "this" when the channel that delivers the response is the calling one
\* (always so when receive() invokes the handler), "other" otherwise
call_handler(S, id, channel, data, error) ==
  LET S1 == IF channel # "this"
              THEN [S EXCEPT !.calls[id] =
                      settle(@, "rejected", InvalidChannelError)]
            ELSE IF Truthy(error)
              THEN IF HasName(error)
                     THEN [S EXCEPT !.calls[id] =
                             settle(@, "rejected", ForwardedError(error))]
                     ELSE [S EXCEPT !.calls[id] = settle(@, "rejected", error)]
              ELSE [S EXCEPT !.calls[id] = settle(@, "resolved", data)]
  IN  call_onDone(S1, id)

\* generate(to, args): the request is sent before the handler is registered
generate(S) ==
  LET id == S.return_seq_id
      S1 == c_send(nextSeqAddr(S).S, "request")
  IN  [S1 EXCEPT !._i_reg = register(@, RetAddr(id)),
                 !.gens[id] = [NoGen EXCEPT !.pc = "idle",
                                            !.late = (S._state = CLOSED)],
                 !.close_listeners = @ \cup {id}]

\* the handler of generate() with unshift in place of push
gen_handler_Unshift(S, id, data, error, done) ==
  LET S1 == IF Truthy(error) THEN gen_onDone(S, id) ELSE S
      frame == IF HasName(error)
                 THEN <<data, ForwardedError(error), done>>
                 ELSE <<data, error, done>>
  IN  [S1 EXCEPT !.gens[id].buffer = <<frame>> \o @,
                 !.gens[id].recvd = Append(@, <<data, error, done>>),
                 !.gens[id].pc = IF S.gens[id].onNewData /\ @ = "waiting"
                                   THEN "woken" ELSE @]

\* the handler generate() registers at its correlation address
gen_handler(S, id, data, error, done) ==
  LET S1 == IF Truthy(error) THEN gen_onDone(S, id) ELSE S
      frame == IF HasName(error)
                 THEN <<data, ForwardedError(error), done>>
                 ELSE <<data, error, done>>
  IN  [S1 EXCEPT !.gens[id].buffer = Append(@, frame),
                 !.gens[id].recvd = Append(@, <<data, error, done>>),
                 !.gens[id].pc = IF S.gens[id].onNewData /\ @ = "waiting"
                                   THEN "woken" ELSE @]

\* getNext up to its await: suspend on an empty buffer, shift otherwise
getNext(S, id) ==
  IF S.gens[id].buffer = <<>>
    THEN [S EXCEPT !.gens[id].pc = "waiting", !.gens[id].onNewData = TRUE]
    ELSE [S EXCEPT !.gens[id].pc = "holding",
                   !.gens[id].held = Head(S.gens[id].buffer),
                   !.gens[id].buffer = Tail(@)]

\* getNext after its await
getNext_tail(S, id) ==
  [S EXCEPT !.gens[id].onNewData = FALSE,
            !.gens[id].pc = "holding",
            !.gens[id].held = Head(S.gens[id].buffer),
            !.gens[id].buffer = Tail(@)]

\* the generator object takes the request at the head of its queue while it
\* is suspended at its start or at a yield
gen_resume(S, id) ==
  IF S.gens[id].queue = <<>> THEN [S EXCEPT !.gens[id].pc = "idle"]
  ELSE IF Head(S.gens[id].queue) = "next" THEN getNext(S, id)
  ELSE [S EXCEPT !.gens[id].pc = "finished", !.gens[id].queue = <<>>,
                 !.gens[id].result = Head(S.gens[id].queue)]

\* the body of gen once getNext has delivered a frame
gen_body(S, id) ==
  LET d == S.gens[id].held[1]
      e == S.gens[id].held[2]
      c == S.gens[id].held[3]
  IN  IF Truthy(e)
        THEN [gen_onDone(S, id) EXCEPT !.gens[id].pc = "finished",
                                       !.gens[id].queue = <<>>,
                                       !.gens[id].result = "threw"]
      ELSE IF c
        THEN [gen_onDone(S, id) EXCEPT !.gens[id].pc = "finished",
                                       !.gens[id].queue = <<>>,
                                       !.gens[id].result = "done"]
      ELSE gen_resume([S EXCEPT !.gens[id].yielded = Append(@, d),
                                !.gens[id].queue = Tail(@)], id)

\* gen.next() called by the consumer
gen_next(S, id) ==
  LET S1 == [S EXCEPT !.gens[id].queue = Append(@, "next")]
  IN  IF S.gens[id].pc = "finished" THEN S
      ELSE IF S.gens[id].pc = "idle" THEN gen_resume(S1, id) ELSE S1

\* stop(): the stopgen notice and onDone
stop(S, id) ==
  gen_onDone([c_send(S, "stopgen") EXCEPT !.gens[id].stops = @ + 1], id)

\* the return() / throw() the stream is given: stop(), then the original
\* method of the generator object
gen_cancel(S, id, how) ==
  LET S1 == [stop(S, id) EXCEPT !.gens[id].queue = Append(@, how)]
  IN  IF S.gens[id].pc = "finished" THEN stop(S, id)
      ELSE IF S.gens[id].pc = "idle" THEN gen_resume(S1, id) ELSE S1

\* ------------------------------------------------------------ access decision
\* RpcChannel.can: acv is what access_controller.can returns (NONE also when
\* no controller is set), irv what _i_reg.can returns; stages lists the
\* stages that were evaluated
can_RegistryFirst(acv, irv, dp) ==
  IF irv # NONE THEN [val |-> irv, stages |-> <<"access_controller", "_i_reg">>]
  ELSE IF acv # NONE THEN [val |-> acv, stages |-> <<"access_controller">>]
  ELSE [val |-> dp,
        stages |-> <<"access_controller", "_i_reg", "default_policy">>]

can(acv, irv, dp) ==
  IF acv # NONE THEN [val |-> acv, stages |-> <<"access_controller">>]
  ELSE IF irv # NONE THEN [val |-> irv, stages |-> <<"access_controller", "_i_reg">>]
  ELSE [val |-> dp,
        stages |-> <<"access_controller", "_i_reg", "default_policy">>]

\* ------------------------------------------------------------------ messages
\* the msg object send(to, args, return_addr, return_type) hands to c_send;
\* return_addr tells whether one was given
RpcMessage(to, args, return_addr, return_type) ==
  [to |-> to, args |-> args, return_addr |-> return_addr,
   return_type |-> return_type]

\* a reply that names a return address of its own
reply_message_WithReturnAddr(addr, args) ==
  RpcMessage(addr, args, TRUE, "promise")

\* this.send(addr, args) as maybeReturn calls it: no return_addr is passed
\* and return_type takes its default
reply_message(addr, args) == RpcMessage(addr, args, FALSE, "promise")

\* ------------------------------------------------------------------- replies
\* The closure maybeReturn makes for one inbound request with return_addr:
\*   proto   "promise" or "generator" (the switch on return_type)
\*   st      "deferred" (a promise result is not settled yet), "stream" (a
\*           handler stream is being read), "finished" (nothing more will
\*           run for this request), "threw" (a send threw: out of receive()
\*           or as an unhandled rejection)
\*   done    the closure variable done
\*   frames  the argument lists sent to return_addr, serialized (history)
\*   items   the items read from the handler stream so far
\*   stopped the stopgen handler of this request has run (history)
\*   noticed the number of frames sent when the first stopgen notice for
\*           this request was received while it was in progress, else -1
\*           (history)
NoServ == [proto |-> "none", st |-> "none", done |-> FALSE, frames |-> <<>>,
           items |-> 0, stopped |-> FALSE, noticed |-> -1]

Ok(S) == [S |-> S, thrown |-> FALSE]

\* this.send(addr, [d, e] ++ rest) to the return_addr of request k: the
\* arguments are serialized, which can throw, then c_send is invoked
send_reply(S, k, d, e, rest) ==
  IF CanSerialize(d) /\ CanSerialize(e)
    THEN Ok([c_send(S, "reply") EXCEPT !.serv[k].frames =
               Append(@, <<rpcSerialize(d), rpcSerialize(e)>> \o rest)])
    ELSE [S |-> S, thrown |-> TRUE]

\* setDone of maybeReturn: unregisters through RpcChannel.unregister (reg)
setDone(S, k) ==
  [S EXCEPT !.serv[k].done = TRUE, !.reg = unregister(@, StopAddr(k))]

\* send of maybeReturn (the generator branch)
gsend(S, k, d, e, set_done) ==
  LET r == IF ~S.serv[k].done
             THEN send_reply(S, k, d, e, <<set_done \/ Truthy(e)>>)
             ELSE Ok(S)
  IN  IF r.thrown THEN r
      ELSE IF Truthy(e) \/ set_done THEN Ok(setDone(r.S, k)) ELSE r

\* nothing more runs for request k
Fin(r, k) ==
  [S |-> [r.S EXCEPT !.serv[k].st = IF r.thrown THEN "threw" ELSE "finished"],
   thrown |-> r.thrown]

\* maybeReturn(data, error) for the inbound message m, whose closure is k.
\* R describes data: [k |-> "plain", v |-> value], [k |-> "promise"] or
\* [k |-> "stream"].
maybeReturn(S, m, k, R, error) ==
  IF ~m.return_addr THEN Ok(S)
  ELSE IF m.return_type = "generator"
    THEN IF Truthy(error)
           THEN Fin(send_reply(S, k, Undef, error, <<TRUE>>), k)
         ELSE IF R.k = "promise"
           THEN Ok([S EXCEPT !.serv[k].st = "deferred"])
         ELSE IF R.k = "stream"
           THEN Ok([S EXCEPT !._i_reg = register(@, StopAddr(k)),
                             !.serv[k].st = "stream"])
         ELSE LET r1 == gsend(S, k, R.v, Undef, FALSE)
              IN  IF r1.thrown THEN Fin(r1, k)
                  ELSE Fin(gsend(r1.S, k, Undef, Undef, TRUE), k)
    ELSE IF Truthy(error)
           THEN Fin(send_reply(S, k, Undef, error, <<>>), k)
         ELSE IF R.k = "promise"
           THEN Ok([S EXCEPT !.serv[k].st = "deferred"])
         ELSE IF R.k = "stream"
           THEN Ok([S EXCEPT !.serv[k].st = "stream"])
         ELSE Fin(send_reply(S, k, R.v, Undef, <<>>), k)

\* the promise a handler returned settles (how is "resolve" or "reject")
serve_settle(S, k, how, v) ==
  IF S.serv[k].proto = "generator"
    THEN IF how = "resolve"
           THEN LET r1 == gsend(S, k, v, Undef, FALSE)
                IN  IF r1.thrown THEN Fin(r1, k).S
                    ELSE Fin(gsend(r1.S, k, Undef, Undef, TRUE), k).S
           ELSE Fin(gsend(S, k, Undef, v, FALSE), k).S
    ELSE IF how = "resolve"
           THEN Fin(send_reply(S, k, v, Undef, <<>>), k).S
           ELSE Fin(send_reply(S, k, Undef, v, <<>>), k).S

SerializationTypeError == ErrorObj("TypeError", "Functions cannot be serialized")

\* the stream a handler returned produces its next outcome: it yields v
\* ("yield"), it ends ("end") or it throws v ("throw")
serve_item(S, k, what, v) ==
  IF S.serv[k].proto = "generator"
    THEN CASE what = "yield" ->
                LET r == gsend(S, k, v, Undef, FALSE)
                IN  IF r.thrown
                      THEN Fin(gsend(S, k, Undef, SerializationTypeError, FALSE), k).S
                    ELSE IF r.S.serv[k].done THEN Fin(r, k).S
                    ELSE [r.S EXCEPT !.serv[k].items = @ + 1]
           [] what = "end" -> Fin(gsend(S, k, Undef, Undef, TRUE), k).S
           [] OTHER -> Fin(gsend(S, k, Undef, v, FALSE), k).S
    ELSE CASE what = "yield" -> Fin(send_reply(S, k, v, Undef, <<>>), k).S
           [] what = "end" -> Fin(send_reply(S, k, Undef, Undef, <<>>), k).S
           [] OTHER -> Fin(send_reply(S, k, Undef, v, <<>>), k).S

\* ------------------------------------------------------------------- receive
PlainUndef == [k |-> "plain", v |-> Undef]

IsRetAddr(a) == Len(a) = 3 /\ a[2] = "ret"
IsStopAddr(a) == Len(a) = 4 /\ a[2] = "stopgen"

\* this._i_reg.map.get(val.to, wc) || this.reg.map.get(val.to, wc)
lookup(S, to) ==
  IF to \in S._i_reg THEN "_i_reg" ELSE IF to \in S.reg THEN "reg" ELSE "undefined"

\* func(this, wc, ...val.args): the handler found at m.to runs.  The handlers
\* of the channel itself return undefined; an application handler returns
\* the result R or throws R.v.
\* the handler of the close notice answering with a notice of its own
invoke_CloseEcho(S, m, R) ==
  LET S1 == [S EXCEPT !.invoked = @ + 1]
  IN  IF lookup(S, m.to) = "reg"
        THEN [S |-> S1, R |-> R, thrown |-> (R.k = "throw")]
      ELSE IF m.to = CloseAddr
        THEN [S |-> close(S1, TRUE), R |-> PlainUndef, thrown |-> FALSE]
      ELSE IF IsStopAddr(m.to)
        THEN [S |-> [setDone(S1, m.to[4]) EXCEPT !.serv[m.to[4]].stopped = TRUE],
              R |-> PlainUndef, thrown |-> FALSE]
      ELSE IF S.calls[m.to[3]].st # "none"
        THEN [S |-> call_handler(S1, m.to[3], "this", m.args[1], m.args[2]),
              R |-> PlainUndef, thrown |-> FALSE]
      ELSE [S |-> gen_handler(S1, m.to[3], m.args[1], m.args[2], m.args[3]),
            R |-> PlainUndef, thrown |-> FALSE]

invoke(S, m, R) ==
  LET S1 == [S EXCEPT !.invoked = @ + 1]
  IN  IF lookup(S, m.to) = "reg"
        THEN [S |-> S1, R |-> R, thrown |-> (R.k = "throw")]
      ELSE IF m.to = CloseAddr
        THEN [S |-> close(S1, FALSE), R |-> PlainUndef, thrown |-> FALSE]
      ELSE IF IsStopAddr(m.to)
        THEN [S |-> [setDone(S1, m.to[4]) EXCEPT !.serv[m.to[4]].stopped = TRUE],
              R |-> PlainUndef, thrown |-> FALSE]
      ELSE IF S.calls[m.to[3]].st # "none"
        THEN [S |-> call_handler(S1, m.to[3], "this", m.args[1], m.args[2]),
              R |-> PlainUndef, thrown |-> FALSE]
      ELSE [S |-> gen_handler(S1, m.to[3], m.args[1], m.args[2], m.args[3]),
            R |-> PlainUndef, thrown |-> FALSE]

\* emit('rawmessage'): resetTimeout (the constructor's listener), then the
\* closefunc of every suspended start()
\* emit('rawmessage') without the listener that resets the timer
emit_rawmessage_NoReset(S) ==
  closefunc([S EXCEPT !.emitted.rawmessage = @ + 1])

emit_rawmessage(S) ==
  closefunc(resetTimeout([S EXCEPT !.emitted.rawmessage = @ + 1]))

\* receive() from the lookup of the handler on, with the denial and the
\* missing handler tested in the other order
receive_dispatch_MissingFirst(S, m, k, acv, irv, R) ==
  LET func == lookup(S, m.to)
      security_policy == can(acv, irv, S.default_policy).val
  IN  IF func = "undefined"
        THEN maybeReturn(S, m, k, PlainUndef, UndefinedFunctionError)
      ELSE IF security_policy = DENY
        THEN maybeReturn(S, m, k, PlainUndef, AccessDeniedError)
      ELSE LET h == invoke(S, m, R)
           IN  IF h.thrown
                 THEN maybeReturn(h.S, m, k, PlainUndef, R.v)
                 ELSE maybeReturn(h.S, m, k, h.R, Undef)

\* receive() from the lookup of the handler on, the handlers of the internal
\* registry being exempt from the access decision
receive_dispatch_InternalExempt(S, m, k, acv, irv, R) ==
  LET func == lookup(S, m.to)
      security_policy == can(acv, irv, S.default_policy).val
  IN  IF security_policy = DENY /\ func # "_i_reg"
        THEN maybeReturn(S, m, k, PlainUndef, AccessDeniedError)
      ELSE IF func = "undefined"
        THEN maybeReturn(S, m, k, PlainUndef, UndefinedFunctionError)
      ELSE LET h == invoke(S, m, R)
           IN  IF h.thrown
                 THEN maybeReturn(h.S, m, k, PlainUndef, R.v)
                 ELSE maybeReturn(h.S, m, k, h.R, Undef)

\* receive() from the lookup of the handler on: the access decision, the
\* missing handler, the guarded call
receive_dispatch(S, m, k, acv, irv, R) ==
  LET func == lookup(S, m.to)
      security_policy == can(acv, irv, S.default_policy).val
  IN  IF security_policy = DENY
        THEN maybeReturn(S, m, k, PlainUndef, AccessDeniedError)
      ELSE IF func = "undefined"
        THEN maybeReturn(S, m, k, PlainUndef, UndefinedFunctionError)
      ELSE LET h == invoke(S, m, R)
           IN  IF h.thrown
                 THEN maybeReturn(h.S, m, k, PlainUndef, R.v)
                 ELSE maybeReturn(h.S, m, k, h.R, Undef)

\* receive() up to the lookup: the 'rawmessage' event and the closure of
\* maybeReturn for a message with return_addr (can_calls counts the one
\* evaluation of can that follows)
receive_head(S, m) ==
  LET S0 == IF /\ IsStopAddr(m.to)
               /\ S.serv[m.to[4]].st \in {"deferred", "stream"}
               /\ S.serv[m.to[4]].noticed = -1
              THEN [S EXCEPT !.serv[m.to[4]].noticed = Len(S.serv[m.to[4]].frames)]
              ELSE S
      S1 == [emit_rawmessage(S0) EXCEPT !.can_calls = @ + 1]
      k == S.nserv + 1
  IN  IF m.return_addr
        THEN [S1 EXCEPT !.nserv = k,
                        !.serv[k] = [NoServ EXCEPT !.proto =
                           IF m.return_type = "generator"
                             THEN "generator" ELSE "promise"]]
        ELSE S1

\* receive() without the early return on CLOSED
receive_NoClosedGuard(S, m, acv, irv, R) ==
  LET r == receive_dispatch(receive_head(S, m), m, S.nserv + 1, acv, irv, R)
  IN  IF r.thrown THEN [r.S EXCEPT !.threw = @ + 1] ELSE r.S

receive(S, m, acv, irv, R) ==
  IF S._state = CLOSED THEN S
  ELSE LET r == receive_dispatch(receive_head(S, m), m, S.nserv + 1, acv, irv, R)
       IN  IF r.thrown THEN [r.S EXCEPT !.threw = @ + 1] ELSE r.S

\* the frames the peer sends to address to while the send hook runs, received
\* one after the other
RECURSIVE receive_frames(_, _, _)
receive_frames(S, to, frames) ==
  IF frames = <<>> THEN S
  ELSE receive_frames(
         receive(S, [to |-> to, args |-> Head(frames), return_addr |-> FALSE,
                     return_type |-> "absent"], NONE, NONE,
                 [k |-> "plain", v |-> Undef]),
         to, Tail(frames))

\* generate() over a transport whose send hook runs the peer's receive(),
\* and with it the peer's replies frames, before it returns: the request is
\* sent, the frames arrive, then the correlation handler is registered
generate_sync(S, frames) ==
  LET id == S.return_seq_id
      S1 == c_send(nextSeqAddr(S).S, "request")
      S2 == receive_frames(S1, RetAddr(id), frames)
  IN  [S2 EXCEPT !._i_reg = register(@, RetAddr(id)),
                 !.gens[id] = [NoGen EXCEPT !.pc = "idle",
                                            !.late = (S._state = CLOSED)],
                 !.close_listeners = @ \cup {id}]

\* -------------------------------------------------------------- address map
\* An address segment is a string; "" stands for every falsy segment
\* (undefined, null, ''), which put() and get() do not tell apart.  A trie is
\* a function from the key paths of its nodes to the [DefaultEntryKey] of
\* each node (Undef when the node has none).
WildcardEntryKey == "Symbol(WildcardEntry)"

NewTable == (<<>> :> Undef)

Prefixes(p) == {SubSeq(p, 1, i) : i \in 0 .. Len(p)}

\* AddressMap.put(addr, value)
put(T, addr, value) ==
  LET p == [i \in 1 .. Len(addr) |->
              IF addr[i] = "" THEN WildcardEntryKey ELSE addr[i]]
  IN  [n \in (DOMAIN T) \cup Prefixes(p) |->
         IF n = p THEN (IF isDefined(value) THEN value ELSE Undef)
         ELSE IF n \in DOMAIN T THEN T[n] ELSE Undef]

\* getFromAddrMapFlat(map, addr, wc_values), map being the node at key path
\* node: the data returned, the sink afterwards, and the node whose default
\* was returned
RECURSIVE getFromAddrMapFlat(_, _, _, _)
getFromAddrMapFlat(T, node, addr, wc) ==
  IF addr = <<>> \/ Head(addr) = ""
    THEN [data |-> T[node], wc |-> wc, node |-> node]
  ELSE LET part == Head(addr)
           lit == IF Append(node, part) \in DOMAIN T
                    THEN getFromAddrMapFlat(T, Append(node, part), Tail(addr), wc)
                    ELSE [data |-> Undef, wc |-> wc, node |-> node]
       IN  IF ~Truthy(lit.data) /\ Append(node, WildcardEntryKey) \in DOMAIN T
             THEN getFromAddrMapFlat(T, Append(node, WildcardEntryKey),
                                     Tail(addr), Append(lit.wc, part))
             ELSE lit

\* AddressMap.get(addr, wc_values)
get(T, addr, wc) ==
  LET r == getFromAddrMapFlat(T, <<>>, addr, wc)
  IN  IF Truthy(r.data) THEN r
      ELSE [data |-> T[<<>>], wc |-> r.wc, node |-> <<>>]

\* ------------------------------------------------------- chained controller
\* ChainedAccessController.can: some() invokes the sub-controllers in order
\* until one answers a defined value.  chain[i] is the answer of the i-th
\* sub-controller; called lists the sub-controllers invoked.
RECURSIVE chain_some(_, _, _)
chain_some(chain, i, called) ==
  IF i > Len(chain) THEN [val |-> NONE, called |-> called]
  ELSE IF chain[i] # NONE THEN [val |-> chain[i], called |-> Append(called, i)]
  ELSE chain_some(chain, i + 1, Append(called, i))

RECURSIVE chain_every(_, _, _, _)
\* every sub-controller is invoked and the last defined answer wins
chain_every(chain, i, called, val) ==
  IF i > Len(chain) THEN [val |-> val, called |-> called]
  ELSE chain_every(chain, i + 1, Append(called, i),
                   IF chain[i] # NONE THEN chain[i] ELSE val)

ChainedAccessController_can_NoStop(chain, dflt) ==
  LET r == chain_every(chain, 1, <<>>, NONE)
  IN  [val |-> IF r.val # NONE THEN r.val ELSE dflt, called |-> r.called]

ChainedAccessController_can(chain, dflt) ==
  LET r == chain_some(chain, 1, <<>>)
  IN  [val |-> IF r.val # NONE THEN r.val ELSE dflt, called |-> r.called]

\* ---------------------------------------------------- permission controller
\* What a controller makes of the value a predicate returned:
\* isDefined(result) ? Boolean(result) : OptAccessPolicy.NONE
PolicyOf(result) ==
  IF ~isDefined(result) THEN NONE ELSE IF Truthy(result) THEN ALLOW ELSE DENY

\* The annotations of the handler opts.func:
\*   has_requires, requires   func[RequiresPermissions], when set
\*   has_can                  func[CanCallFunction] is a function
\*   requests, result         what that predicate passes to require() and
\*                            what it returns
\* the declared permissions are not looked at
AutoFunctionAccessController_can_PredicateFirst(held, f) ==
  IF f.has_can
    THEN IF \E r \in f.requests : r \notin held
           THEN [val |-> DENY, invoked |-> TRUE]
           ELSE [val |-> PolicyOf(f.result), invoked |-> TRUE]
    ELSE [val |-> NONE, invoked |-> FALSE]

\* the requested permissions are not checked
AutoFunctionAccessController_can_NoRequestCheck(held, f) ==
  IF f.has_requires /\ \E r \in f.requires : r \notin held
    THEN [val |-> DENY, invoked |-> FALSE]
  ELSE IF f.has_can
    THEN [val |-> PolicyOf(f.result), invoked |-> TRUE]
  ELSE [val |-> NONE, invoked |-> FALSE]

\* AutoFunctionAccessController.can(to, opts)
AutoFunctionAccessController_can(held, f) ==
  IF f.has_requires /\ \E r \in f.requires : r \notin held
    THEN [val |-> DENY, invoked |-> FALSE]
  ELSE IF f.has_can
    THEN IF \E r \in f.requests : r \notin held
           THEN [val |-> DENY, invoked |-> TRUE]
           ELSE [val |-> PolicyOf(f.result), invoked |-> TRUE]
  ELSE [val |-> NONE, invoked |-> FALSE]

\* ---------------------------------------------------- annotated methods
\* a function that carries neither RequiresPermissions nor CanCallFunction
Unannotated ==
  [has_requires |-> FALSE, requires |-> {}, has_can |-> FALSE,
   requests |-> {}, result |-> Undef]

NoneStored == [func |-> Unannotated, method |-> Unannotated, via |-> "none"]

\* RpcHandlerRegistry.register(address, func) for a method without a
\* remapped pointer: the map holds func itself
RpcHandlerRegistry_register(func) ==
  [func |-> func, method |-> func, via |-> "register"]

\* RpcHandlerRegistry.registerAll(base) for one method func of base: the map
\* holds the arrow function (...args) => tgt.apply(base, args), a new
\* function object with no property of func
registerAll(func) ==
  [func |-> Unannotated, method |-> func, via |-> "registerAll"]

\* ------------------------------------------------ lookup, legacy controller
\* A predicate stored in a lookup controller's map: a function, v naming the
\* verdict it returns when called
Predicate(verdict) == [t |-> "function", name |-> "", v |-> verdict, stack |-> ""]
\* the value calling it returns
Returned(f) ==
  IF f.v = ALLOW THEN True ELSE IF f.v = DENY THEN False ELSE Undef

\* an OptAccessPolicy value as a verdict: true, false, null or undefined
VerdictOf(x) == IF x = True THEN ALLOW ELSE IF x = False THEN DENY ELSE NONE

\* FunctionLookupAccessController.can(to, opts):
\*   (func && func(to, opts)) || OptAccessPolicy.NONE
FunctionLookupAccessController_can(T, to) ==
  LET func == get(T, to, <<>>).data
      r == IF Truthy(func) THEN Returned(func) ELSE func
  IN  [val |-> IF Truthy(r) THEN VerdictOf(r) ELSE NONE,
       invoked |-> Truthy(func)]

\* LegacyAccessController.can(to): this.map.get(to)
LegacyAccessController_can(T, to) ==
  [val |-> VerdictOf(get(T, to, <<>>).data), invoked |-> FALSE]

\* ---------------------------------------------------------------------- Init
\* new AutoFunctionAccessController(): nothing held, nothing decided yet
InitAccess ==
  /\ perms = {} /\ ac_result = [val |-> NONE, invoked |-> FALSE]
  /\ stored = NoneStored

\* new AddressMap(): an empty table, nothing looked up yet
InitMap ==
  /\ table = NewTable /\ puts = <<>> /\ got = Undef /\ wc_values = <<>>

\* new ChainedAccessController(default_ap): an empty chain
InitChainOf(D) ==
  /\ access_chain = <<>> /\ default_ap \in D
  /\ chain_result = [val |-> NONE, called |-> <<>>]

Timeouts == {0, 20}        \* opts.timeout: disabled or some milliseconds
KeepAlives == {0, 5}       \* opts.keep_alive_interval: absent or some ms

\* new RpcChannel(c_send, default_policy, reg, _opts): the close handler is
\* registered, the 'rawmessage' listener is set and resetKeepAlive() runs
constructor(dp, r, o) ==
  resetKeepAlive(
    [_state |-> INACTIVE, _opts |-> o, default_policy |-> dp,
     active_timeout |-> FALSE, active_keepalive |-> FALSE,
     start_waiting |-> 0, start_ready |-> 0,
     _i_reg |-> register({}, CloseAddr), reg |-> r, return_seq_id |-> 0,
     reg_return_seq_id |-> 0, allocs |-> [_i_reg |-> <<>>, reg |-> <<>>],
     timer_arms |-> 0, live_timers |-> {},
     close_listeners |-> {},
     calls |-> [i \in ReqIds |-> NoCall], gens |-> [i \in ReqIds |-> NoGen],
     serv |-> [k \in ServIds |-> NoServ], nserv |-> 0,
     nsent |-> [close |-> 0, keepalive |-> 0, request |-> 0, stopgen |-> 0,
                reply |-> 0],
     emitted |-> [statechange |-> 0, active |-> 0, close |-> 0, rawmessage |-> 0],
     invoked |-> 0, can_calls |-> 0, threw |-> 0])

\* the variables of this channel hold the channel S
InitChan(S) ==
        /\ _state = S._state /\ _opts = S._opts
        /\ default_policy = S.default_policy
        /\ active_timeout = S.active_timeout
        /\ active_keepalive = S.active_keepalive
        /\ start_waiting = S.start_waiting /\ start_ready = S.start_ready
        /\ _i_reg = S._i_reg /\ reg = S.reg
        /\ return_seq_id = S.return_seq_id
        /\ reg_return_seq_id = S.reg_return_seq_id /\ allocs = S.allocs
        /\ timer_arms = S.timer_arms /\ live_timers = S.live_timers
        /\ close_listeners = S.close_listeners
        /\ calls = S.calls /\ gens = S.gens /\ serv = S.serv /\ nserv = S.nserv
        /\ nsent = S.nsent /\ emitted = S.emitted
        /\ invoked = S.invoked /\ can_calls = S.can_calls /\ threw = S.threw
        /\ op = [name |-> "constructor"]

\* requests counts the requests handed to the peer, frames the replies and
\* frames of each request of the peer handed back
NoneDelivered ==
  [to_peer |-> [close |-> 0, keepalive |-> 0],
   from_peer |-> [close |-> 0, keepalive |-> 0],
   requests |-> 0, frames |-> [k \in ServIds |-> 0]]

\* the states a constructor call with these arguments leaves; the peer is a
\* channel made with the defaults
InitOf(DP, T, KA, AW) ==
  \E dp \in DP, t \in T, ka \in KA, aw \in AW :
    /\ InitChan(constructor(dp, {}, [timeout |-> t, keep_alive_interval |-> ka,
                                     await_first_msg |-> aw]))
    /\ peer = constructor(ALLOW, {}, [timeout |-> 0, keep_alive_interval |-> 0,
                                      await_first_msg |-> FALSE])
    /\ delivered = NoneDelivered
    /\ InitMap
    /\ InitAccess
    /\ InitChainOf({NONE})

\* two connected channels, each with its own default policy and timeout
InitPeers ==
  \E dp \in {ALLOW, DENY}, pdp \in {ALLOW, DENY}, t \in Timeouts, pt \in Timeouts :
    /\ InitChan(constructor(dp, {}, [timeout |-> t, keep_alive_interval |-> 0,
                                     await_first_msg |-> FALSE]))
    /\ peer = constructor(pdp, {}, [timeout |-> pt, keep_alive_interval |-> 0,
                                    await_first_msg |-> FALSE])
    /\ delivered = NoneDelivered
    /\ InitMap
    /\ InitAccess
    /\ InitChainOf({NONE})

\* every configuration of the options
Init == InitOf({ALLOW, DENY}, Timeouts, KeepAlives, BOOLEAN)

\* no timeout, no keepalive, no await_first_msg (the defaults)
InitPlain == InitOf({ALLOW, DENY}, {0}, {0}, {FALSE})

\* ------------------------------------------------------------------- inputs
TypeErrorYeet == ErrorObj("TypeError", "yeet")
\* what an application handler returns or throws
Results ==
  {[k |-> "plain", v |-> x] : x \in {Str("a"), Undef, Func}}
    \cup {[k |-> "throw", v |-> x] : x \in {TypeErrorYeet, Undef, Func}}
    \cup {[k |-> "promise", v |-> Undef], [k |-> "stream", v |-> Undef]}
\* what a promise settles with and what a stream yields or throws
Settled == {Str("a"), Func}
Thrown == {TypeErrorYeet, Undef, Func}
Verdicts == {ALLOW, DENY, NONE}

NoArgs == <<Undef, Undef, FALSE>>
\* the argument lists of a reply: [data, error] or [data, error, done]
ReplyArgs ==
  {<<Str("a"), Undef, FALSE>>, <<Str("b"), Undef, FALSE>>,
   <<Undef, Undef, TRUE>>, <<Undef, Str("oops"), FALSE>>,
   <<Undef, rpcSerialize(TypeErrorYeet), TRUE>>}

\* the payload of the n-th message of a peer that numbers its payloads
Payload(n) == Str(<<"a", "b", "c", "d", "e", "f">>[n + 1])
\* the argument lists of the frames of a stream
StreamFrames ==
  {<<Payload(emitted.rawmessage), Undef, FALSE>>, DoneFrame,
   <<Undef, Str("oops"), FALSE>>, <<Undef, rpcSerialize(TypeErrorYeet), TRUE>>}

\* the [data, error] pairs a correlation handler is invoked with
Responses ==
  {<<Str("a"), Undef>>, <<Undef, Zero>>, <<Undef, Str("oops")>>,
   <<Str("a"), rpcSerialize(TypeErrorYeet)>>}

\* with or without return_addr, and the return_type
NoReturn == {<<FALSE, "absent">>}
Returns ==
  NoReturn \cup (IF nserv < MaxServe
                   THEN {TRUE} \X {"promise", "generator", "absent"} ELSE {})

MsgsTo(addrs, argset, returns) ==
  {[to |-> a, args |-> x, return_addr |-> r[1], return_type |-> r[2]] :
     a \in addrs, x \in argset, r \in returns}

RetAddrs == {RetAddr(i) : i \in 0 .. (return_seq_id - 1)}
StopAddrs == {StopAddr(k) : k \in 1 .. nserv}

\* ------------------------------------------------------------------ actions
Start ==
  /\ (_state = INACTIVE /\ opts(Cur).await_first_msg)
       => start_waiting + start_ready < MaxStarts
  /\ Install(start(Cur))
  /\ op' = [name |-> "start"]

StartResume ==
  /\ start_ready > 0
  /\ Install(start_tail([Cur EXCEPT !.start_ready = @ - 1]))
  /\ op' = [name |-> "start_tail"]

Close ==
  \E send \in BOOLEAN :
    /\ Install(close(Cur, send))
    /\ op' = [name |-> "close", send |-> send]

TimerExpire ==
  \E id \in live_timers :
    /\ Install(timeout_cb([Cur EXCEPT !.live_timers = @ \ {id}]))
    /\ op' = [name |-> "timeout"]

KeepAliveTick ==
  /\ active_keepalive
  /\ nsent.keepalive < MaxKeepAlive
  /\ Install(sendKeepAlive(Cur))
  /\ op' = [name |-> "keepalive"]

SetTimeout ==
  \E t \in Timeouts, ka \in KeepAlives :
    /\ nsent.keepalive < MaxKeepAlive
    /\ Install(setTimeout(Cur, t, ka))
    /\ op' = [name |-> "setTimeout"]

SetAwaitFirstMsg ==
  \E should \in BOOLEAN :
    /\ Install(setAwaitFirstMsg(Cur, should))
    /\ op' = [name |-> "setAwaitFirstMsg"]

\* the handler stored at the correlation address of a call() is invoked
\* directly, by this channel or by another one, with a response
InvokeHandler ==
  \E id \in ReqIds, channel \in {"this", "other"}, r \in Responses :
    /\ calls[id].st # "none"
    /\ RetAddr(id) \in _i_reg
    /\ calls[id].settles < MaxSettles
    /\ Install(call_handler(Cur, id, channel, r[1], r[2]))
    /\ op' = [name |-> "handler", id |-> id, channel |-> channel,
              data |-> r[1], error |-> r[2]]

\* a notice or heartbeat as it travels
Notice(kind) ==
  [to |-> IF kind = "close" THEN CloseAddr ELSE KeepAliveAddr, args |-> NoArgs,
   return_addr |-> FALSE, return_type |-> "absent"]

\* the transport hands this channel a notice the peer has sent
DeliverFromPeer ==
  \E kind \in {"close", "keepalive"} :
    /\ peer.nsent[kind] > delivered.from_peer[kind]
    /\ InstallChan(receive(Cur, Notice(kind), NONE, NONE, PlainUndef))
    /\ delivered' = [delivered EXCEPT !.from_peer[kind] = @ + 1]
    /\ UNCHANGED <<peer, amap, ctl, acc>>
    /\ op' = [name |-> "receive", return_addr |-> FALSE,
              acv |-> NONE, irv |-> NONE,
              can |-> can(NONE, NONE, default_policy),
              func |-> lookup(Cur, Notice(kind).to)]

\* the transport hands the peer a notice this channel has sent
DeliverToPeer ==
  \E kind \in {"close", "keepalive"} :
    /\ nsent[kind] > delivered.to_peer[kind]
    /\ peer' = receive(peer, Notice(kind), NONE, NONE, PlainUndef)
    /\ delivered' = [delivered EXCEPT !.to_peer[kind] = @ + 1]
    /\ UNCHANGED <<chan, amap, ctl, acc>>
    /\ op' = [name |-> "peer.receive", kind |-> kind]

PeerStart ==
  /\ peer._state = INACTIVE
  /\ peer' = start(peer)
  /\ UNCHANGED <<chan, delivered, amap, ctl, acc>>
  /\ op' = [name |-> "peer.start"]

PeerClose ==
  \E send \in BOOLEAN :
    /\ peer' = close(peer, send)
    /\ UNCHANGED <<chan, delivered, amap, ctl, acc>>
    /\ op' = [name |-> "peer.close", send |-> send]

PeerTimerExpire ==
  \E id \in peer.live_timers :
    /\ peer' = timeout_cb([peer EXCEPT !.live_timers = @ \ {id}])
    /\ UNCHANGED <<chan, delivered, amap, ctl, acc>>
    /\ op' = [name |-> "peer.timeout"]

Segs == {"a", "b"}
RECURSIVE AddrsOver(_, _)
\* the addresses of at most n segments drawn from S
AddrsOver(S, n) ==
  IF n = 0 THEN {<<>>}
  ELSE LET shorter == AddrsOver(S, n - 1)
       IN  shorter \cup {Append(a, x) : a \in shorter, x \in S}
ConcreteAddrs == AddrsOver(Segs, MaxLen)
PatternAddrs == AddrsOver(Segs \cup {""}, MaxLen)
\* what a map stores: two truthy values and a falsy one
MapValues == {Str("v1"), Str("v2"), Zero}

\* map.put(addr, value), value absent to delete
Put ==
  \E addr \in PatternAddrs, value \in MapValues \cup {Undef} :
    /\ Len(puts) < MaxPuts
    /\ table' = put(table, addr, value)
    /\ puts' = Append(puts, [addr |-> addr, value |-> value])
    /\ UNCHANGED <<chan, peer, delivered, got, wc_values, ctl, acc>>
    /\ op' = [name |-> "put"]

\* map.get(addr, wc_values) with an empty wc_values
Get ==
  \E addr \in ConcreteAddrs :
    LET r == get(table, addr, <<>>)
    IN  /\ got' = r.data
        /\ wc_values' = r.wc
        /\ UNCHANGED <<chan, peer, delivered, table, puts, ctl, acc>>
        /\ op' = [name |-> "get", addr |-> addr, node |-> r.node]

\* controller.access_chain.push(a controller that answers v)
ChainPush ==
  \E v \in Verdicts :
    /\ Len(access_chain) < MaxChain
    /\ access_chain' = Append(access_chain, v)
    /\ UNCHANGED <<chan, peer, delivered, amap, default_ap, chain_result, acc>>
    /\ op' = [name |-> "access_chain.push"]

\* controller.can(addr, opts)
ChainCan ==
  /\ chain_result' = ChainedAccessController_can(access_chain, default_ap)
  /\ UNCHANGED <<chan, peer, delivered, amap, access_chain, default_ap, acc>>
  /\ op' = [name |-> "can"]

\* the addresses of a controller's map and of the requests it is asked about
PolicyPatterns == AddrsOver(Segs \cup {""}, MaxLen - 1)
PolicyAddrs == AddrsOver(Segs, MaxLen - 1)

\* ac.map.put(addr, predicate) on a FunctionLookupAccessController
PutPredicate ==
  \E addr \in PolicyPatterns,
     value \in {Predicate(v) : v \in Verdicts} \cup {Undef} :
    /\ Len(puts) < MaxPuts
    /\ table' = put(table, addr, value)
    /\ puts' = Append(puts, [addr |-> addr, value |-> value])
    /\ UNCHANGED <<chan, peer, delivered, got, wc_values, ctl, acc>>
    /\ op' = [name |-> "put"]

\* ac.can(addr, opts) on a FunctionLookupAccessController
LookupCan ==
  \E addr \in PolicyAddrs :
    /\ ac_result' = FunctionLookupAccessController_can(table, addr)
    /\ UNCHANGED <<chan, peer, delivered, amap, ctl, perms, stored>>
    /\ op' = [name |-> "lookup.can", addr |-> addr]

\* ac.map.put(addr, policy) on a LegacyAccessController
PutPolicy ==
  \E addr \in PolicyPatterns, value \in {True, False, Undef} :
    /\ Len(puts) < MaxPuts
    /\ table' = put(table, addr, value)
    /\ puts' = Append(puts, [addr |-> addr, value |-> value])
    /\ UNCHANGED <<chan, peer, delivered, got, wc_values, ctl, acc>>
    /\ op' = [name |-> "put"]

\* ac.can(addr) on a LegacyAccessController
LegacyCan ==
  \E addr \in PolicyAddrs :
    /\ ac_result' = LegacyAccessController_can(table, addr)
    /\ UNCHANGED <<chan, peer, delivered, amap, ctl, perms, stored>>
    /\ op' = [name |-> "legacy.can", addr |-> addr]

\* Values to serialize: a string, an Error with a stack, a function and a
\* hooked value, each also inside arrays and plain objects nested in turn.
ErrWithStack == ErrorObj("RangeError", "too far")
RECURSIVE Nested(_)
\* the values whose leaf sits exactly d containers deep
Nested(d) ==
  IF d = 0 THEN {Str("a"), ErrWithStack, Func, Hooked(Str("hi"))}
  ELSE IF d % 2 = 1 THEN {Array(<<x>>) : x \in Nested(d - 1)}
  ELSE {Object(<<x, ErrWithStack>>) : x \in Nested(d - 1)}
WireValues(n) == UNION {Nested(d) : d \in 0 .. n}

\* channel.send(to, [value]) called by the application
Send ==
  \E x \in WireValues(MaxDepth) :
    LET r == RpcChannel_send(Cur, <<x>>)
    IN  /\ nsent.request < MaxReq
        /\ Install(r.S)
        /\ op' = [name |-> "send", args |-> <<x>>, wire |-> r.args,
                  thrown |-> r.thrown]

Perms == {"p", "q"}
\* the handlers a request can resolve to, by their annotations
Handlers ==
  {[has_requires |-> FALSE, requires |-> {}, has_can |-> FALSE,
    requests |-> {}, result |-> Undef]}
    \cup {[has_requires |-> TRUE, requires |-> rq, has_can |-> FALSE,
           requests |-> {}, result |-> Undef] : rq \in SUBSET Perms}
    \cup {[has_requires |-> hr, requires |-> IF hr THEN rq ELSE {},
           has_can |-> TRUE, requests |-> rs, result |-> x] :
             hr \in BOOLEAN, rq \in SUBSET Perms, rs \in SUBSET Perms,
             x \in {True, False, Undef}}

\* controller.perms.add(p)
GrantPerm ==
  \E p \in Perms \ perms :
    /\ perms' = perms \cup {p}
    /\ UNCHANGED <<chan, peer, delivered, amap, ctl, ac_result, stored>>
    /\ op' = [name |-> "perms.add"]

\* controller.perms.delete(p)
RevokePerm ==
  \E p \in perms :
    /\ perms' = perms \ {p}
    /\ UNCHANGED <<chan, peer, delivered, amap, ctl, ac_result, stored>>
    /\ op' = [name |-> "perms.delete"]

\* controller.can(to, opts) with opts.func the handler f
AutoCan ==
  \E f \in Handlers :
    /\ ac_result' = AutoFunctionAccessController_can(perms, f)
    /\ UNCHANGED <<chan, peer, delivered, amap, ctl, perms, stored>>
    /\ op' = [name |-> "auto.can", func |-> f]

\* channel.reg.nextSeqAddr() called by the application
RegNextSeqAddr ==
  /\ reg_return_seq_id < MaxReq
  /\ Install(reg_nextSeqAddr(Cur).S)
  /\ op' = [name |-> "reg.nextSeqAddr"]

\* RpcChannel.register / unregister of an application handler
Register ==
  /\ Install([Cur EXCEPT !.reg = register(@, AppAddr)])
  /\ op' = [name |-> "register"]

Unregister ==
  /\ Install([Cur EXCEPT !.reg = unregister(@, AppAddr)])
  /\ op' = [name |-> "unregister"]

Call ==
  /\ return_seq_id < MaxReq
  /\ Install(call(Cur))
  /\ op' = [name |-> "call", id |-> return_seq_id]

Generate ==
  /\ return_seq_id < MaxReq
  /\ Cardinality({id \in ReqIds : gens[id].pc # "none"}) < MaxGens
  /\ Install(generate(Cur))
  /\ op' = [name |-> "generate", id |-> return_seq_id]

GenNext ==
  \E id \in ReqIds :
    /\ gens[id].pc \notin {"none", "finished"}
    /\ Len(gens[id].queue) < MaxPulls
    /\ Install(gen_next(Cur, id))
    /\ op' = [name |-> "next", id |-> id]

GenWake ==
  \E id \in ReqIds :
    /\ gens[id].pc = "woken"
    /\ Install(getNext_tail(Cur, id))
    /\ op' = [name |-> "getNext_tail", id |-> id]

GenBody ==
  \E id \in ReqIds :
    /\ gens[id].pc = "holding"
    /\ Install(gen_body(Cur, id))
    /\ op' = [name |-> "gen_body", id |-> id]

GenCancel ==
  \E id \in ReqIds, how \in {"return", "throw"} :
    /\ gens[id].pc # "none"
    /\ Len(gens[id].queue) < MaxPulls
    /\ nsent.stopgen < MaxReq
    /\ Install(gen_cancel(Cur, id, how))
    /\ op' = [name |-> how, id |-> id]

\* receive(m) for a message of M, the two access controllers answering with
\* verdicts of V
ReceiveOf(M, V, RS) ==
  \E m \in M, acv \in V, irv \in V :
    \E R \in (IF /\ _state # CLOSED
                 /\ lookup(Cur, m.to) = "reg"
                 /\ can(acv, irv, default_policy).val # DENY
                THEN RS ELSE {PlainUndef}) :
      /\ _state # CLOSED => emitted.rawmessage < MaxMsgs
      /\ Install(receive(Cur, m, acv, irv, R))
      /\ op' = [name |-> "receive", return_addr |-> m.return_addr,
                acv |-> acv, irv |-> irv,
                can |-> can(acv, irv, default_policy),
                func |-> lookup(Cur, m.to)]

\* what a handler that throws synchronously can throw, falsy values included
SyncThrows ==
  {[k |-> "throw", v |-> x] : x \in {TypeErrorYeet, Undef, Zero, Str(""), Func}}

\* receive() of a request for the application handler, which returns a value
\* or throws one synchronously; the outcome is kept in op
ReceiveThrowing ==
  \E m \in MsgsTo({AppAddr}, {NoArgs}, Returns) :
    \E R \in (IF _state # CLOSED /\ lookup(Cur, m.to) = "reg"
                 /\ can(NONE, NONE, default_policy).val # DENY
                THEN SyncThrows \cup {[k |-> "plain", v |-> Str("a")]}
                ELSE {PlainUndef}) :
      /\ _state # CLOSED => emitted.rawmessage < MaxMsgs
      /\ Install(receive(Cur, m, NONE, NONE, R))
      /\ op' = [name |-> "receive", return_addr |-> m.return_addr,
                return_type |-> m.return_type, R |-> R]

ServeSettle ==
  \E k \in ServIds, how \in {"resolve", "reject"} :
    \E v \in (IF how = "resolve" THEN Settled ELSE Thrown) :
      /\ serv[k].st = "deferred"
      /\ Install(serve_settle(Cur, k, how, v))
      /\ op' = [name |-> how, k |-> k]

ServeItem ==
  \E k \in ServIds, what \in {"yield", "end", "throw"} :
    \E v \in (CASE what = "yield" -> Settled
                [] what = "end" -> {Undef}
                [] OTHER -> Thrown) :
      /\ serv[k].st = "stream"
      /\ what = "yield" => serv[k].items < MaxItems
      /\ Install(serve_item(Cur, k, what, v))
      /\ op' = [name |-> what, k |-> k]

\* ------------------------------------------------------------ specifications
\* The liveness state machine: start, close, timers, options, and inbound
\* notices and heartbeats.
ReceiveNotice ==
  ReceiveOf(MsgsTo({CloseAddr, KeepAliveAddr}, {NoArgs}, NoReturn), {NONE},
            {PlainUndef})

NextLife ==
  \/ Start
  \/ StartResume
  \/ Close
  \/ TimerExpire
  \/ KeepAliveTick
  \/ SetTimeout
  \/ SetAwaitFirstMsg
  \/ ReceiveNotice

SpecLife == Init /\ [][NextLife]_vars

\* the continuation of a start() that was woken is a microtask: it runs;
\* an armed timer that is not cleared expires
SpecLifeFair == SpecLife /\ WF_vars(StartResume) /\ WF_vars(TimerExpire)

\* Calls: call(), the replies to them and close().
ReceiveReply ==
  ReceiveOf(MsgsTo(RetAddrs \cup {CloseAddr}, ReplyArgs, NoReturn), {NONE},
            {PlainUndef})

NextCall ==
  \/ Start
  \/ Close
  \/ Call
  \/ ReceiveReply

SpecCall == InitPlain /\ [][NextCall]_vars

\* Streams: generate(), its consumer, the frames sent to it and close().
ReceiveFrame ==
  ReceiveOf(MsgsTo(RetAddrs, StreamFrames, NoReturn), {NONE}, {PlainUndef})

NextGen ==
  \/ Generate
  \/ GenNext
  \/ GenWake
  \/ GenBody
  \/ Close
  \/ ReceiveFrame

SpecGen == InitPlain /\ [][NextGen]_vars

\* Closing: close() on a channel with timers, suspended start() calls,
\* pending calls and open streams.
NextClose ==
  \/ Start
  \/ StartResume
  \/ TimerExpire
  \/ Close
  \/ Call
  \/ Generate
  \/ GenNext
  \/ GenBody
  \/ ReceiveNotice

SpecClose == Init /\ [][NextClose]_vars

\* Dispatch: inbound messages of every kind under every pair of verdicts,
\* on a channel that may be INACTIVE, ACTIVE with its timer, or CLOSED.
InitTimed == InitOf({ALLOW, DENY}, Timeouts \ {0}, {0}, {FALSE})

ReceiveAny ==
  ReceiveOf(MsgsTo({AppAddr, MissingAddr, CloseAddr}, {NoArgs}, Returns),
            Verdicts, {[k |-> "plain", v |-> Str("a")]})

NextDispatch ==
  \/ Start
  \/ Close
  \/ TimerExpire
  \/ Register
  \/ ReceiveAny

SpecDispatch == InitTimed /\ [][NextDispatch]_vars

\* Serving: inbound requests and stopgen notices, the handlers' deferred
\* results and streams, and close().
ReceiveRequest ==
  ReceiveOf(MsgsTo({AppAddr, MissingAddr} \cup StopAddrs, {NoArgs}, Returns),
            {NONE}, Results)

NextServe ==
  \/ Register
  \/ ReceiveRequest
  \/ ServeSettle
  \/ ServeItem
  \/ Close

SpecServe == InitPlain /\ [][NextServe]_vars

\* Cancellation: a stream whose consumer calls return() or throw(), next
\* to frames and close().
ReceiveValue ==
  ReceiveOf(MsgsTo(RetAddrs, {<<Payload(emitted.rawmessage), Undef, FALSE>>},
                   NoReturn), {NONE}, {PlainUndef})

NextCancel ==
  \/ Generate
  \/ GenNext
  \/ GenWake
  \/ GenBody
  \/ GenCancel
  \/ Close
  \/ ReceiveValue

SpecCancel == InitPlain /\ [][NextCancel]_vars

\* Settlement: the correlation handlers of call() invoked with responses.
NextSettle ==
  \/ Call
  \/ InvokeHandler
  \/ Close

SpecSettle == InitPlain /\ [][NextSettle]_vars

\* Correlation addresses: requests of both kinds, the application's own use
\* of its registry's counter, responses, cancellations and close().
ReceiveDone ==
  ReceiveOf(MsgsTo(RetAddrs, {DoneFrame}, NoReturn), {NONE}, {PlainUndef})

NextSeq ==
  \/ Call
  \/ Generate
  \/ RegNextSeqAddr
  \/ GenCancel
  \/ Close
  \/ ReceiveDone

\* the defaults of every constructor argument
InitDefault == InitOf({ALLOW}, {0}, {0}, {FALSE})

SpecSeq == InitDefault /\ [][NextSeq]_vars

\* Requests to an application handler that throws synchronously.
NextThrow ==
  \/ Register
  \/ Unregister
  \/ Start
  \/ Close
  \/ ReceiveThrowing

SpecThrow == InitPlain /\ [][NextThrow]_vars

\* Two connected peers: each may start, close with or without a notice, or
\* time out; notices and heartbeats travel in both directions.
NextPeers ==
  \/ Start
  \/ Close
  \/ TimerExpire
  \/ PeerStart
  \/ PeerClose
  \/ PeerTimerExpire
  \/ DeliverToPeer
  \/ DeliverFromPeer

SpecPeers == InitPeers /\ [][NextPeers]_vars

\* One AddressMap: puts, deletions and lookups.
NextMap ==
  \/ Put
  \/ Get

SpecMap == InitDefault /\ [][NextMap]_vars

\* One ChainedAccessController with any default and chain.
InitChain ==
  /\ InitChan(constructor(ALLOW, {}, [timeout |-> 0, keep_alive_interval |-> 0,
                                      await_first_msg |-> FALSE]))
  /\ peer = constructor(ALLOW, {}, [timeout |-> 0, keep_alive_interval |-> 0,
                                    await_first_msg |-> FALSE])
  /\ delivered = NoneDelivered
  /\ InitMap
  /\ InitAccess
  /\ InitChainOf(Verdicts)

NextChain ==
  \/ ChainPush
  \/ ChainCan

SpecChain == InitChain /\ [][NextChain]_vars

\* One AutoFunctionAccessController whose held permissions change.
NextPerm ==
  \/ GrantPerm
  \/ RevokePerm
  \/ AutoCan

SpecPerm == InitDefault /\ [][NextPerm]_vars

\* One FunctionLookupAccessController and its map of predicates.
NextLookup ==
  \/ PutPredicate
  \/ LookupCan

SpecLookup == InitDefault /\ [][NextLookup]_vars

\* One LegacyAccessController and its map of policies.
NextLegacy ==
  \/ PutPolicy
  \/ LegacyCan

SpecLegacy == InitDefault /\ [][NextLegacy]_vars

\* a request with return_addr to the application handler, which returns or
\* throws an Error or an array holding one
ReceiveWire ==
  ReceiveOf(MsgsTo({AppAddr}, {NoArgs}, Returns \ NoReturn), {NONE},
            {[k |-> kind, v |-> x] :
               kind \in {"plain", "throw"},
               x \in {ErrWithStack, Array(<<ErrWithStack>>)}})

\* What reaches the transport: arguments of send() and replies to requests.
NextWire ==
  \/ Register
  \/ Send
  \/ ReceiveWire

SpecWire == InitDefault /\ [][NextWire]_vars

\* what a peer sends back while it handles a stream request inside the send
\* hook: nothing (the result is deferred, or the transport is asynchronous),
\* the two frames of a plain result, or the error frame of a denied or
\* missing handler
SyncFrames ==
  {<<>>, <<<<Str("a"), Undef, FALSE>>, DoneFrame>>,
   <<<<Undef, rpcSerialize(UndefinedFunctionError), TRUE>>>>}

GenerateSync ==
  \E frames \in SyncFrames :
    /\ return_seq_id < MaxReq
    /\ Cardinality({id \in ReqIds : gens[id].pc # "none"}) < MaxGens
    /\ emitted.rawmessage + Len(frames) <= MaxMsgs
    /\ Install(generate_sync(Cur, frames))
    /\ op' = [name |-> "generate", id |-> return_seq_id, sent |-> frames]

\* Streams over a transport that may deliver inside the send hook.
NextSync ==
  \/ GenerateSync
  \/ GenNext
  \/ GenWake
  \/ GenBody
  \/ ReceiveFrame

SpecSync == InitDefault /\ [][NextSync]_vars

\* registry.register(address, method) for an annotated method
RegisterMethod ==
  \E f \in Handlers :
    /\ stored' = RpcHandlerRegistry_register(f)
    /\ UNCHANGED <<chan, peer, delivered, amap, ctl, perms, ac_result>>
    /\ op' = [name |-> "register.method"]

\* registry.registerAll(obj), obj having one annotated method
RegisterAllMethod ==
  \E f \in Handlers :
    /\ stored' = registerAll(f)
    /\ UNCHANGED <<chan, peer, delivered, amap, ctl, perms, ac_result>>
    /\ op' = [name |-> "registerAll"]

\* controller.can(to, opts) of an inbound call to the address of the method:
\* opts.func is what the map holds
InboundCan ==
  /\ stored.via # "none"
  /\ ac_result' = AutoFunctionAccessController_can(perms, stored.func)
  /\ UNCHANGED <<chan, peer, delivered, amap, ctl, perms, stored>>
  /\ op' = [name |-> "inbound.can"]

\* Annotated methods, their registration and the permission controller.
NextAnnot ==
  \/ GrantPerm
  \/ RevokePerm
  \/ RegisterMethod
  \/ RegisterAllMethod
  \/ InboundCan

SpecAnnot == InitDefault /\ [][NextAnnot]_vars

\* the argument lists of messages to the addresses of the '_' namespace
ReservedArgs ==
  {<<Str("a"), Undef, FALSE>>, <<Undef, rpcSerialize(TypeErrorYeet), TRUE>>}

\* receive(m) for a message without return_addr to a correlation address or
\* to ['_','close'], the access controller answering acv
ReceiveReserved ==
  \E m \in MsgsTo(RetAddrs \cup {CloseAddr}, ReservedArgs, NoReturn),
     acv \in Verdicts :
    /\ _state # CLOSED => emitted.rawmessage < MaxMsgs
    /\ Install(receive(Cur, m, acv, NONE, PlainUndef))
    /\ op' = [name |-> "receive", to |-> m.to, return_addr |-> FALSE,
              can |-> can(acv, NONE, default_policy),
              func |-> lookup(Cur, m.to)]

\* The '_' namespace under the access decision: pending calls, open streams
\* and the messages addressed to them and to ['_','close'].
NextReserved ==
  \/ Start
  \/ Call
  \/ Generate
  \/ ReceiveReserved

SpecReserved == InitPlain /\ [][NextReserved]_vars

\* peer.register(['net','app'], handler)
PeerRegister ==
  /\ AppAddr \notin peer.reg
  /\ peer' = [peer EXCEPT !.reg = register(@, AppAddr)]
  /\ UNCHANGED <<chan, delivered, amap, ctl, acc>>
  /\ op' = [name |-> "peer.register"]

\* the transport hands the peer the next request of this channel: the
\* request of call() or generate() number delivered.requests
PeerReceiveRequest ==
  \E R \in Results :
    LET id == delivered.requests
        m == RpcMessage(AppAddr, NoArgs, TRUE,
                        IF calls[id].st # "none" THEN "promise" ELSE "generator")
    IN  /\ delivered.requests < nsent.request
        /\ peer.nserv < MaxServe
        /\ peer' = receive(peer, m, NONE, NONE,
                           IF lookup(peer, m.to) = "reg" THEN R ELSE PlainUndef)
        /\ delivered' = [delivered EXCEPT !.requests = @ + 1]
        /\ UNCHANGED <<chan, amap, ctl, acc>>
        /\ op' = [name |-> "peer.receive", kind |-> "request"]

\* the promise a handler of the peer returned settles
PeerServeSettle ==
  \E k \in ServIds, how \in {"resolve", "reject"} :
    \E v \in (IF how = "resolve" THEN Settled ELSE Thrown) :
      /\ peer.serv[k].st = "deferred"
      /\ peer' = serve_settle(peer, k, how, v)
      /\ UNCHANGED <<chan, delivered, amap, ctl, acc>>
      /\ op' = [name |-> "peer.settle", k |-> k]

\* the stream a handler of the peer returned yields, ends or throws
PeerServeItem ==
  \E k \in ServIds, what \in {"yield", "end", "throw"} :
    \E v \in (CASE what = "yield" -> Settled
                [] what = "end" -> {Undef}
                [] OTHER -> Thrown) :
      /\ peer.serv[k].st = "stream"
      /\ what = "yield" => peer.serv[k].items < MaxItems
      /\ peer' = serve_item(peer, k, what, v)
      /\ UNCHANGED <<chan, delivered, amap, ctl, acc>>
      /\ op' = [name |-> "peer.item", k |-> k]

\* the transport hands this channel the next reply or frame the peer sent
\* for its request k, which is request k - 1 of this channel
DeliverReply ==
  \E k \in ServIds :
    LET n == delivered.frames[k] + 1
        m == reply_message(RetAddr(k - 1), peer.serv[k].frames[n])
    IN  /\ n <= Len(peer.serv[k].frames)
        /\ InstallChan(receive(Cur, m, NONE, NONE, PlainUndef))
        /\ delivered' = [delivered EXCEPT !.frames[k] = n]
        /\ UNCHANGED <<peer, amap, ctl, acc>>
        /\ op' = [name |-> "receive", return_addr |-> m.return_addr,
                  to |-> m.to, func |-> lookup(Cur, m.to)]

\* Two connected peers: the requests of call() and generate() travel to the
\* peer, whose handler answers; the replies and frames travel back.
NextPingPong ==
  \/ Call
  \/ Generate
  \/ PeerRegister
  \/ PeerReceiveRequest
  \/ PeerServeSettle
  \/ PeerServeItem
  \/ DeliverReply

SpecPingPong == InitDefault /\ [][NextPingPong]_vars

\* ==================================================================== claims

\* C1: the channel is INACTIVE after construction and its state only moves
\* forward: it never returns to INACTIVE and, once CLOSED, never changes.
C1_StateMonotonic ==
  /\ _state = INACTIVE
  /\ [][/\ (_state = CLOSED => _state' = CLOSED)
        /\ (_state' = INACTIVE => _state = INACTIVE)]_vars

\* a channel that was started by a first message, became ACTIVE and was
\* closed, with a start() continuation still to run
C1_Witness ==
  /\ _state = CLOSED
  /\ emitted.active = 1
  /\ emitted.rawmessage > 0
  /\ start_ready > 0

\* C2: the promise of a call() issued while the channel is not CLOSED settles
\* exactly once: it is never pending once the channel is CLOSED, a close that
\* finds it pending rejects it with 'Channel closed', and once settled its
\* outcome never changes, whatever response or close comes later.
C2_CallSettlesOnce ==
  /\ [](_state = CLOSED =>
          \A id \in ReqIds : calls[id].st = "pending" => calls[id].late)
  /\ [][\A id \in ReqIds :
          /\ (calls[id].st = "pending" /\ _state # CLOSED /\ _state' = CLOSED)
               => (calls'[id].st = "rejected"
                   /\ calls'[id].val = ChannelClosedError)
          /\ calls[id].st \in {"resolved", "rejected"}
               => (calls'[id].st = calls[id].st
                   /\ calls'[id].val = calls[id].val)]_vars

\* one call was resolved by its response and got a second response, another
\* call was rejected by close()
C2_Witness ==
  /\ _state = CLOSED
  /\ \E i, j \in ReqIds :
       /\ calls[i].st = "resolved" /\ calls[i].settles >= 2
       /\ calls[j].st = "rejected" /\ calls[j].val = ChannelClosedError

\* C3: once the channel is CLOSED no pull of a stream made by generate()
\* before the close is left suspended: close() wakes a pull that waits on an
\* empty buffer and that pull completes.
C3_CloseWakesPull ==
  _state = CLOSED =>
    \A id \in ReqIds : gens[id].pc = "waiting" => gens[id].late

\* C4: close() on a channel that is already CLOSED changes nothing: no state
\* change, no close notice sent, no event emitted, no timer touched, and no
\* pending call or stream affected.
C4_CloseIdempotent ==
  [][(_state = CLOSED /\ op'.name = "close") => UNCHANGED chan]_vars

\* the last operation was close(true) and yet no close notice was ever sent:
\* the channel had been closed before without a notice, with a call rejected
\* by that first close and a stream that got its done frame
C4_Witness ==
  /\ _state = CLOSED /\ op.name = "close" /\ op.send
  /\ nsent.close = 0 /\ emitted.close = 1
  /\ \E i, j \in ReqIds :
       /\ calls[i].st = "rejected" /\ calls[i].settles = 1
       /\ gens[j].pc # "none" /\ ~gens[j].late

\* C5: receive() on a CLOSED channel changes nothing, whatever the message:
\* no event, no timer armed, no handler invoked, no access decision, nothing
\* sent, state and registries as they were.
C5_ReceiveOnClosed ==
  [][(_state = CLOSED /\ op'.name = "receive") => UNCHANGED chan]_vars

\* a request with return_addr for a registered handler that access control
\* would allow arrived on a channel closed before any message: nothing ran
C5_Witness ==
  /\ _state = CLOSED /\ op.name = "receive"
  /\ op.return_addr /\ op.func = "reg" /\ op.can.val = ALLOW
  /\ emitted.rawmessage = 0 /\ invoked = 0 /\ nserv = 0 /\ nsent.reply = 0

\* what the promise of a call() on the peer becomes when the reply f reaches
\* the peer's receive()
RemoteOutcome(f) ==
  LET P == call(constructor(ALLOW, {}, [timeout |-> 0,
                                        keep_alive_interval |-> 0,
                                        await_first_msg |-> FALSE]))
  IN  call_handler(P, 0, "this", f[1], f[2]).calls[0]

\* C6: a DENY decision wins over a missing handler: no handler runs and the
\* reply, if one is asked for, is the AccessDeniedError whether or not a
\* handler exists; without DENY a missing handler gives the reply 'Function
\* at address is undefined', which rejects the peer's call() with that message.
C6_DenyBeforeMissing ==
  [][(op'.name = "receive" /\ _state # CLOSED) =>
       /\ op'.can.val = DENY =>
            /\ invoked' = invoked
            /\ op'.return_addr =>
                 /\ Len(serv'[nserv'].frames) = 1
                 /\ serv'[nserv'].frames[1][2] = rpcSerialize(AccessDeniedError)
       /\ (op'.can.val # DENY /\ op'.func = "undefined") =>
            /\ invoked' = invoked
            /\ op'.return_addr =>
                 /\ Len(serv'[nserv'].frames) = 1
                 /\ serv'[nserv'].frames[1][2]
                      = rpcSerialize(UndefinedFunctionError)
                 /\ RemoteOutcome(serv'[nserv'].frames[1]).st = "rejected"
                 /\ RemoteOutcome(serv'[nserv'].frames[1]).val.v
                      = "Function at address is undefined"]_vars

\* a denied request for an address without a handler was answered with the
\* AccessDeniedError
C6_Witness ==
  /\ op.name = "receive" /\ op.return_addr
  /\ op.can.val = DENY /\ op.func = "undefined"
  /\ nserv > 0 /\ serv[nserv].frames # <<>>
  /\ serv[nserv].frames[1][2].name = "AccessDeniedError"

\* C7: the decision of RpcChannel.can is the verdict of the access
\* controller when it gives one, else the verdict of the internal registry
\* when it gives one, else the default policy; a stage that decided is final
\* and no later stage is evaluated; receive() invokes the handler it found
\* exactly when that decision is not DENY.
C7_ThreeStages ==
  [][op'.name = "receive" =>
       /\ op'.acv # NONE =>
            op'.can = [val |-> op'.acv, stages |-> <<"access_controller">>]
       /\ (op'.acv = NONE /\ op'.irv # NONE) =>
            op'.can = [val |-> op'.irv,
                       stages |-> <<"access_controller", "_i_reg">>]
       /\ (op'.acv = NONE /\ op'.irv = NONE) =>
            op'.can = [val |-> default_policy,
                       stages |-> <<"access_controller", "_i_reg",
                                    "default_policy">>]
       /\ (_state # CLOSED /\ op'.func # "undefined") =>
            (invoked' = invoked <=> op'.can.val = DENY)]_vars

\* the controller allowed what the registry and the default would deny, and
\* the handler ran
C7_Witness ==
  /\ op.name = "receive" /\ op.acv = ALLOW /\ op.irv = DENY
  /\ default_policy = DENY /\ op.func = "reg" /\ invoked = 1

\* C8: under the call protocol a processed request with return_addr gets at
\* most one reply, and exactly one once nothing more will run for it; a
\* message without return_addr gets none.
C8_OneReply ==
  /\ [](\A k \in ServIds :
          serv[k].proto = "promise" =>
            /\ Len(serv[k].frames) <= 1
            /\ serv[k].st \in {"finished", "threw"} => Len(serv[k].frames) = 1)
  /\ [][(op'.name = "receive" /\ ~op'.return_addr) => nsent' = nsent]_vars

\* C9: under the stream protocol, without a stopgen notice, every frame but
\* the last is a value frame [v, undefined, false], and once the handler's
\* outcome has been sent without any failure the last frame is terminal.
C9_OneTerminalFrame ==
  \A k \in ServIds :
    (serv[k].proto = "generator" /\ ~serv[k].stopped) =>
      LET f == serv[k].frames
      IN  /\ \A i \in 1 .. (Len(f) - 1) : f[i][2] = Undef /\ ~f[i][3]
          /\ serv[k].st = "finished" => (f # <<>> /\ f[Len(f)][3])

\* a frame ends the stream when it carries an error or the done flag
IsTerminal(f) == Truthy(f[2]) \/ f[3]
HasTerminal(R) == \E i \in 1 .. Len(R) : IsTerminal(R[i])
FirstTerminal(R) ==
  R[CHOOSE i \in 1 .. Len(R) :
      IsTerminal(R[i]) /\ \A j \in 1 .. (i - 1) : ~IsTerminal(R[j])]
RECURSIVE ValuesBefore(_)
\* the values of the frames ahead of the first terminal frame, in order
ValuesBefore(R) ==
  IF R = <<>> \/ IsTerminal(Head(R)) THEN <<>>
  ELSE <<Head(R)[1]>> \o ValuesBefore(Tail(R))

\* C10: a stream yields the values of the frames its handler received, in
\* the order received and each once, up to the first error or done frame;
\* it ends by throwing only at an error frame and by completing only at a
\* done frame or at close(), in both cases after all earlier values.
C10_FramesInOrder ==
  \A id \in ReqIds :
    LET g == gens[id]
        V == ValuesBefore(g.recvd)
    IN  g.pc # "none" =>
          /\ Len(g.yielded) <= Len(V)
          /\ g.yielded = SubSeq(V, 1, Len(g.yielded))
          /\ g.result = "threw" =>
               /\ g.yielded = V
               /\ HasTerminal(g.recvd) /\ Truthy(FirstTerminal(g.recvd)[2])
          /\ g.result = "done" =>
               /\ g.yielded = V
               /\ IF HasTerminal(g.recvd)
                    THEN ~Truthy(FirstTerminal(g.recvd)[2])
                    ELSE _state = CLOSED

\* two different values were yielded in order and the done frame ended it
C10_Witness ==
  \E id \in ReqIds :
    /\ gens[id].yielded = <<Str("a"), Str("b")>>
    /\ gens[id].recvd = <<<<Str("a"), Undef, FALSE>>, <<Str("b"), Undef, FALSE>>,
                          DoneFrame>>
    /\ gens[id].result = "done"

\* C11: every cancellation of a stream of generate() has sent a stopgen
\* notice for it and left no handler at its correlation address: after the
\* consumer's return() or throw(), and on a channel closed while the stream
\* was open.
C11_CancelSendsStopgen ==
  /\ op.name \in {"return", "throw"} =>
       /\ gens[op.id].stops >= 1
       /\ RetAddr(op.id) \notin _i_reg
  /\ \A id \in ReqIds :
       (_state = CLOSED /\ gens[id].pc # "none" /\ ~gens[id].late
          /\ gens[id].result = "none") =>
         /\ gens[id].stops >= 1
         /\ RetAddr(id) \notin _i_reg

C13_SequentialAddresses ==
  /\ \A n \in 1 .. Len(allocs._i_reg) : allocs._i_reg[n] = RetAddr(n - 1)
  /\ \A n \in 1 .. Len(allocs.reg) : allocs.reg[n] = RetAddr(n - 1)
  /\ \A i, j \in 1 .. Len(allocs._i_reg) :
       i # j => allocs._i_reg[i] # allocs._i_reg[j]
  /\ Len(allocs._i_reg) = nsent.request
  /\ \A id \in ReqIds :
       /\ id < Len(allocs._i_reg) <=>
            (calls[id].st # "none" \/ gens[id].pc # "none")
       /\ ~(calls[id].st # "none" /\ gens[id].pc # "none")

\* a call and a stream were made, the stream was cancelled, the channel was
\* closed, and the application drew from its own registry in between
C13_Witness ==
  /\ _state = CLOSED
  /\ allocs.reg = <<RetAddr(0)>>
  /\ allocs._i_reg = <<RetAddr(0), RetAddr(1)>>
  /\ \E i, j \in ReqIds :
       calls[i].st # "none" /\ gens[j].stops > 0

\* C14: start() with await_first_msg on an INACTIVE channel only suspends;
\* without the flag it makes the channel ACTIVE at once; on an ACTIVE or
\* CLOSED channel it changes nothing.  Every suspended start() is woken by
\* the next processed message and by close() and by nothing else; its
\* continuation makes an INACTIVE channel ACTIVE, leaves a CLOSED one CLOSED,
\* and always runs, so the promise of start() resolves.
C14_AwaitFirstMessage ==
  /\ [][/\ (op'.name = "start" /\ _state = INACTIVE) =>
             IF opts(Cur).await_first_msg
               THEN /\ _state' = INACTIVE
                    /\ start_waiting' = start_waiting + 1
                    /\ start_ready' = start_ready
               ELSE _state' = ACTIVE
        /\ (op'.name = "start" /\ _state # INACTIVE) => UNCHANGED chan
        /\ ((op'.name = "receive" /\ _state # CLOSED)
              \/ (_state # CLOSED /\ _state' = CLOSED)) =>
             /\ start_waiting' = 0
             /\ start_ready' = start_ready + start_waiting
        /\ start_waiting' < start_waiting =>
             (op'.name = "receive" \/ _state' = CLOSED)
        /\ op'.name = "start_tail" =>
             /\ _state' = IF _state = INACTIVE THEN ACTIVE ELSE _state
             /\ start_ready' = start_ready - 1]_vars
  /\ [](start_ready > 0 => <>(start_ready = 0))

\* a start() that waited was woken by close() before any message, its
\* continuation has run and the channel is still CLOSED
C14_Witness ==
  /\ op.name = "start_tail" /\ _state = CLOSED
  /\ emitted.rawmessage = 0 /\ emitted.active = 0
  /\ start_waiting = 0 /\ start_ready = 0

\* C15: on an ACTIVE channel with a non-zero timeout the inactivity timer is
\* armed; every processed message that leaves the channel ACTIVE replaces it
\* by a new timer; the expiry of the timer closes the channel; so such a
\* channel is eventually CLOSED unless the timeout is taken away.
C15_InactivityTimer ==
  /\ []((_state = ACTIVE /\ opts(Cur).timeout # 0) => active_timeout)
  /\ [][/\ (op'.name = "receive" /\ _state = ACTIVE /\ opts(Cur).timeout # 0
              /\ _state' = ACTIVE) =>
             (active_timeout' /\ timer_arms' = timer_arms + 1)
        /\ op'.name = "timeout" =>
             (_state' = CLOSED /\ ~active_timeout')]_vars
  /\ []((_state = ACTIVE /\ opts(Cur).timeout # 0) =>
          <>(_state = CLOSED \/ opts(Cur).timeout = 0))

\* the timer was armed by start() and again by each of two messages, then it
\* expired and closed the channel
C15_Witness ==
  /\ op.name = "timeout" /\ _state = CLOSED
  /\ emitted.rawmessage = 2 /\ timer_arms = 3

\* C16: close(true) on a channel that is not CLOSED sends one close notice,
\* close(false) none; a channel that is not CLOSED and processes an allowed
\* close notice becomes CLOSED and sends nothing; so neither peer ever sends
\* more than one notice, and once a peer's notice has been delivered and
\* allowed the other peer is CLOSED too.
C16_CloseNotice ==
  /\ [][/\ (op'.name = "close" /\ _state # CLOSED) =>
             /\ _state' = CLOSED
             /\ nsent'.close = nsent.close + (IF op'.send THEN 1 ELSE 0)
        /\ (op'.name = "peer.close" /\ peer._state # CLOSED) =>
             /\ peer'._state = CLOSED
             /\ peer'.nsent.close
                  = peer.nsent.close + (IF op'.send THEN 1 ELSE 0)
        /\ (op'.name = "receive" /\ op'.func = "_i_reg" /\ op'.can.val # DENY
              /\ _state # CLOSED) =>
             (_state' = CLOSED /\ nsent' = nsent)
        /\ (op'.name = "peer.receive" /\ op'.kind = "close"
              /\ peer.default_policy # DENY /\ peer._state # CLOSED) =>
             (peer'._state = CLOSED /\ peer'.nsent = peer.nsent)]_vars
  /\ [](nsent.close <= 1 /\ peer.nsent.close <= 1)
  /\ []((delivered.to_peer.close = 1 /\ peer.default_policy # DENY) =>
          (_state = CLOSED /\ peer._state = CLOSED))
  /\ []((delivered.from_peer.close = 1 /\ default_policy # DENY) =>
          (_state = CLOSED /\ peer._state = CLOSED))

\* this channel closed with a notice, the notice reached the ACTIVE peer and
\* closed it, and the peer sent no notice back
C16_Witness ==
  /\ op.name = "peer.receive" /\ op.kind = "close"
  /\ _state = CLOSED /\ peer._state = CLOSED
  /\ nsent.close = 1 /\ delivered.to_peer.close = 1
  /\ peer.nsent.close = 0 /\ peer.emitted.active = 1

\* C17: when the handler throws synchronously, whatever the value, receive()
\* does not throw, the lifecycle state and both registries stay as they
\* were, and a request with return_addr is answered by exactly one frame
\* that carries an error (with isDone = true under the stream protocol).
C17_SyncThrowContained ==
  [][(op'.name = "receive" /\ op'.R.k = "throw") =>
       /\ threw' = threw
       /\ _state' = _state /\ _i_reg' = _i_reg /\ reg' = reg
       /\ op'.return_addr =>
            LET f == serv'[nserv'].frames
            IN  /\ Len(f) = 1
                /\ Truthy(f[1][2])
                /\ op'.return_type = "generator" => f[1][3]]_vars

\* the address differs from the pattern only where the pattern has a wildcard
MatchesPattern(P, A) ==
  Len(P) = Len(A) /\ \A i \in 1 .. Len(P) : P[i] = "" \/ P[i] = A[i]

\* C18: after put(P, v1) and put(A, v2) in either order, for a concrete
\* address A and a pattern P that differs from A only by wildcard segments,
\* get(A) returns v2 and get of any other concrete address matching P
\* returns v1.
C18_Specificity ==
  (op.name = "get" /\ Len(puts) = 2) =>
    \A i \in {1, 2} :
      LET A == puts[i]
          P == puts[3 - i]
      IN  (/\ A.addr \in ConcreteAddrs /\ P.addr # A.addr
           /\ MatchesPattern(P.addr, A.addr)
           /\ isDefined(A.value) /\ isDefined(P.value)) =>
            /\ op.addr = A.addr => got = A.value
            /\ (op.addr # A.addr /\ MatchesPattern(P.addr, op.addr)) =>
                 got = P.value

RECURSIVE WildcardSegments(_, _)
\* the segments of addr at the wildcard positions of the node path
WildcardSegments(node, addr) ==
  IF node = <<>> THEN <<>>
  ELSE (IF Head(node) = WildcardEntryKey THEN <<Head(addr)>> ELSE <<>>)
         \o WildcardSegments(Tail(node), Tail(addr))

\* C19: after get(addr, sink) on an empty sink, the sink holds exactly the
\* segments of addr at the wildcard positions of the pattern whose value was
\* returned, in address order; it is empty for a literal match and when
\* nothing matched.
C19_WildcardCapture ==
  op.name = "get" => wc_values = WildcardSegments(op.node, op.addr)

\* C20: can() invokes the sub-controllers in list order up to and including
\* the first whose verdict is not UNDECIDED and returns that verdict; when
\* every sub-controller is UNDECIDED, or there is none, all are invoked and
\* the configured default is returned.
C20_ChainOrder ==
  op.name = "can" =>
    LET decided == {i \in 1 .. Len(access_chain) : access_chain[i] # NONE}
    IN  IF decided = {}
          THEN /\ chain_result.val = default_ap
               /\ chain_result.called = [i \in 1 .. Len(access_chain) |-> i]
          ELSE LET k == CHOOSE i \in decided : \A j \in decided : i <= j
               IN  /\ chain_result.val = access_chain[k]
                   /\ chain_result.called = [i \in 1 .. k |-> i]

\* an undecided controller, then DENY, then ALLOW: the third is not invoked
C20_Witness ==
  /\ op.name = "can" /\ access_chain = <<NONE, DENY, ALLOW>>
  /\ chain_result = [val |-> DENY, called |-> <<1, 2>>]

\* C21: when the handler declares required permissions and one of them is
\* not held, can() returns DENY without invoking the handler's predicate;
\* when all of them are held and the handler has no predicate, can() returns
\* UNDECIDED.
C21_DeclaredPermissions ==
  (op.name = "auto.can" /\ op.func.has_requires) =>
    /\ ~(op.func.requires \subseteq perms) =>
         ac_result = [val |-> DENY, invoked |-> FALSE]
    /\ (op.func.requires \subseteq perms /\ ~op.func.has_can) =>
         ac_result.val = NONE

\* one of two declared permissions is missing and the handler has a
\* predicate that would allow
C21_Witness ==
  /\ op.name = "auto.can" /\ op.func.has_requires
  /\ op.func.requires = {"p", "q"} /\ perms = {"p"}
  /\ op.func.has_can /\ op.func.result = True /\ op.func.requests = {}
  /\ ac_result = [val |-> DENY, invoked |-> FALSE]

\* C22: when the handler's predicate is invoked, can() returns DENY if a
\* permission it requested is not held, whatever it returned; otherwise the
\* predicate's verdict, or UNDECIDED when it returned none.
C22_RequestedPermissions ==
  (op.name = "auto.can" /\ ac_result.invoked) =>
    ac_result.val =
      IF ~(op.func.requests \subseteq perms) THEN DENY
      ELSE IF op.func.result = True THEN ALLOW
      ELSE IF op.func.result = False THEN DENY
      ELSE NONE

\* the predicate returned ALLOW but requested a permission that is not held
C22_Witness ==
  /\ op.name = "auto.can" /\ ac_result = [val |-> DENY, invoked |-> TRUE]
  /\ op.func.result = True /\ op.func.requests = {"q"} /\ perms = {"p"}

\* the stored patterns an address matches, as trie nodes
MatchingNodes(T, A) ==
  {n \in DOMAIN T :
     /\ isDefined(T[n]) /\ Len(n) = Len(A)
     /\ \A i \in 1 .. Len(n) : n[i] = A[i] \/ n[i] = WildcardEntryKey}

\* literal before wildcard at the first segment where two matches differ
MoreSpecific(n, m, A) ==
  \/ n = m
  \/ \E i \in 1 .. Len(n) :
       /\ n[i] = A[i] /\ m[i] # A[i]
       /\ \A j \in 1 .. (i - 1) : n[j] = m[j]

\* what the specificity rule selects for A: the value of the most specific
\* stored pattern that matches, else the root default
Selected(T, A) ==
  LET M == MatchingNodes(T, A)
  IN  IF M = {} THEN T[<<>>]
      ELSE T[CHOOSE n \in M : \A m \in M : MoreSpecific(n, m, A)]

\* C23: the lookup controller answers UNDECIDED when no predicate matches
\* the address, and otherwise exactly the verdict the matching predicate
\* returns: ALLOW, DENY or UNDECIDED.
C23_LookupVerdict ==
  op.name = "lookup.can" =>
    LET f == Selected(table, op.addr)
    IN  ac_result.val = IF isDefined(f) THEN f.v ELSE NONE

\* C24: the legacy controller answers the policy the specificity rule
\* selects for the address, ALLOW or DENY, and UNDECIDED when nothing
\* matches and there is no root default.
C24_LegacyPolicy ==
  op.name = "legacy.can" =>
    ac_result.val = VerdictOf(Selected(table, op.addr))

RECURSIVE NoStack(_)
\* no stack trace anywhere in a serialized value
NoStack(w) ==
  IF IsContainer(w) THEN \A i \in DOMAIN w.items : NoStack(w.items[i])
  ELSE w.stack \in {"", Redacted}

RECURSIVE Restack(_)
\* the same value from an execution whose Errors have other stacks
Restack(x) ==
  IF IsContainer(x) THEN [x EXCEPT !.items = [i \in DOMAIN @ |-> Restack(@[i])]]
  ELSE IF x.t = "Error" THEN [x EXCEPT !.stack = "at g (y.js:9)"]
  ELSE x

C26_StopSilences ==
  \A k \in ServIds :
    (serv[k].proto = "generator" /\ serv[k].noticed >= 0) =>
      Len(serv[k].frames) = serv[k].noticed

\* C27: once a stream-protocol response has terminated (done frame, error
\* frame or stopgen notice), no stop-listener is left at its
\* ['_','stopgen', ...return_addr] in the internal registry.
C27_StopListenerRemoved ==
  \A k \in ServIds :
    (serv[k].proto = "generator" /\ (serv[k].st = "finished" \/ serv[k].stopped))
      => StopAddr(k) \notin _i_reg

\* C28: once the first response to a call's correlation address has been
\* processed, no handler is left at that address in the internal registry,
\* and a second response does not reach the call's handler.
C28_OneShotHandler ==
  \A id \in ReqIds :
    calls[id].settles >= 1 =>
      (RetAddr(id) \notin _i_reg /\ calls[id].settles = 1)

\* C29: while the channel is CLOSED neither timer is armed, and no heartbeat
\* is sent, whatever is called on it afterwards.
C29_NoTimersWhenClosed ==
  /\ [](_state = CLOSED => (~active_timeout /\ ~active_keepalive))
  /\ [][_state = CLOSED => nsent'.keepalive = nsent.keepalive]_vars

\* C30: right after close() both the internal registry and the application
\* registry hold no handler.
C30_RegistriesCleared ==
  [][(op'.name \in {"close", "timeout"} /\ _state # CLOSED) =>
       (_i_reg' = {} /\ reg' = {})]_vars


\* the trie node a patterned address names
NodeOf(addr) ==
  [i \in 1 .. Len(addr) |-> IF addr[i] = "" THEN WildcardEntryKey ELSE addr[i]]

\* C31: after put(addr, absent), get of a concrete address matching addr
\* does not return the default of the node at addr; it returns the value of
\* the most specific stored pattern that still matches, else the root
\* default, else absent.  The deletion changes the result of get for no
\* address that addr does not match.
C31_DeleteThenGet ==
  /\ []((/\ op.name = "get" /\ puts # <<>>
         /\ ~isDefined(puts[Len(puts)].value)
         /\ MatchesPattern(puts[Len(puts)].addr, op.addr)) =>
          /\ (op.node = NodeOf(puts[Len(puts)].addr) => ~isDefined(got))
          /\ got = Selected(table, op.addr))
  /\ [][(/\ op'.name = "put" /\ ~isDefined(puts'[Len(puts')].value)
         /\ puts'[Len(puts')].addr # <<>>) =>
          \A A \in ConcreteAddrs :
            ~MatchesPattern(puts'[Len(puts')].addr, A) =>
              get(table', A, <<>>).data = get(table, A, <<>>).data]_vars


\* C32: every frame the peer sent to the correlation address of a stream
\* while generate() was running, the send hook delivering synchronously,
\* has been handed to the stream's correlation handler when generate()
\* returns.
C32_NoFrameLost ==
  (op.name = "generate" /\ "sent" \in DOMAIN op) =>
    gens[op.id].recvd = op.sent


\* C33: once the channel is CLOSED no step hands a message to the transport
\* send hook: not a reply of a deferred result that settles after the close,
\* not a frame of a handler stream that was being served, not a request of
\* send(), call() or generate().
C33_SilentWhenClosed ==
  [][_state = CLOSED => nsent' = nsent]_vars


\* C34: the function the registry holds for a method registered through
\* registerAll carries the method's required permissions and can-call
\* predicate, so the permission controller answers an inbound call as it
\* would for the method itself: DENY when a declared permission is not held.
C34_AnnotationsKept ==
  (op.name = "inbound.can" /\ stored.via = "registerAll") =>
    /\ stored.func.has_requires = stored.method.has_requires
    /\ stored.func.requires = stored.method.requires
    /\ stored.func.has_can = stored.method.has_can
    /\ ac_result = AutoFunctionAccessController_can(perms, stored.method)
    /\ (stored.method.has_requires /\ ~(stored.method.requires \subseteq perms))
         => ac_result.val = DENY


\* C35: the access decision covers the addresses of the '_' namespace: when
\* the composed decision for an inbound message to a correlation address or
\* to ['_','close'] is DENY, no handler runs, no call settles, no frame is
\* buffered and the channel does not close.
C35_ReservedNamespaceDecided ==
  [][(/\ op'.name = "receive" /\ _state # CLOSED
      /\ op'.can.val = DENY /\ op'.to[1] = "_") =>
       /\ invoked' = invoked
       /\ calls' = calls
       /\ gens' = gens
       /\ _state' = _state
       /\ _i_reg' = _i_reg]_vars

\* a denied close notice arrived at an ACTIVE channel that has a pending call
\* and an open stream, after a denied response and a denied frame: the call
\* is still pending, the stream has no frame and the channel is ACTIVE
C35_Witness ==
  /\ op.name = "receive" /\ op.can.val = DENY /\ op.to = CloseAddr
  /\ op.func = "_i_reg" /\ _state = ACTIVE
  /\ emitted.rawmessage = 3
  /\ \E i, j \in ReqIds :
       /\ calls[i].st = "pending"
       /\ gens[j].pc = "idle" /\ gens[j].recvd = <<>>


\* C36: a call() made on a CLOSED channel does not hang: when it returns its
\* promise is rejected, and neither its correlation handler nor its listener
\* of 'close' stays registered.
C36_CallOnClosedSettles ==
  (op.name = "call" /\ _state = CLOSED) =>
    /\ calls[op.id].st = "rejected"
    /\ RetAddr(op.id) \notin _i_reg
    /\ op.id \notin close_listeners


\* C37: a handler result the serializer rejects, plain, deferred or a stream
\* item, makes no receive() throw to the transport and ends no request
\* with the serializer's exception in place of a reply: nothing in progress
\* is left without its error reply.
C37_RejectedResultAnswered ==
  /\ threw = 0
  /\ \A k \in ServIds : serv[k].st # "threw"


\* C38: whatever the interleaving of start() calls, their continuations,
\* receive() and close(), the channel becomes ACTIVE at most once: 'active'
\* and the 'statechange' to ACTIVE are emitted at most once, together, by a
\* step that finds the channel INACTIVE, and never once it is CLOSED.
C38_ActivatedOnce ==
  /\ [](emitted.active <= 1)
  /\ [][/\ emitted'.active # emitted.active =>
             /\ _state = INACTIVE /\ _state' = ACTIVE
             /\ emitted'.active = emitted.active + 1
             /\ emitted'.statechange = emitted.statechange + 1
        /\ (_state' = ACTIVE /\ emitted'.statechange # emitted.statechange) =>
             (_state = INACTIVE /\ emitted'.active = emitted.active + 1)
        /\ _state = CLOSED => emitted'.active = emitted.active]_vars

\* two start() calls waited for the first message and were woken by it; the
\* continuation of one has made the channel ACTIVE and the other has yet
\* to run
C38_Witness ==
  /\ op.name = "start_tail" /\ _state = ACTIVE
  /\ emitted.active = 1 /\ emitted.rawmessage >= 1
  /\ start_ready = 1


\* C39: an armed inactivity timer implies that the channel is ACTIVE with a
\* non-zero timeout, so none is armed while the channel is INACTIVE (also
\* while start() awaits the first message) or CLOSED; and at most one
\* inactivity timer is live at a time: the one active_timeout refers to.
C39_TimerOnlyWhenActive ==
  /\ active_timeout => (_state = ACTIVE /\ opts(Cur).timeout # 0)
  /\ Cardinality(live_timers) <= 1
  /\ live_timers = IF active_timeout THEN {timer_arms} ELSE {}

\* a message arrived at an ACTIVE channel whose timer was armed: the timer
\* was replaced, the third created is the only live one
C39_Witness ==
  /\ op.name = "receive" /\ _state = ACTIVE /\ active_timeout
  /\ timer_arms = 3 /\ live_timers = {3}


\* C40: replies never trigger replies.  Every reply or frame the peer's
\* receive() sent arrives without return_addr; handling a message without
\* return_addr sends nothing; so each call() and generate() accounts for
\* exactly one request, a call gets at most one reply, this channel never
\* answers a reply, the peer never sends a request, and once nothing more
\* runs for a request no further message is sent for it.
C40_NoPingPong ==
  /\ [](/\ nsent.request = return_seq_id
        /\ nsent.reply = 0 /\ nserv = 0
        /\ peer.nsent.request = 0
        /\ \A k \in ServIds :
             peer.serv[k].proto = "promise" => Len(peer.serv[k].frames) <= 1)
  /\ [][/\ op'.name = "receive" => (~op'.return_addr /\ nsent' = nsent)
        /\ \A k \in ServIds :
             peer.serv[k].st \in {"finished", "threw"} =>
               peer'.serv[k].frames = peer.serv[k].frames]_vars

\* the handler stream of the peer has ended and every frame it sent, the
\* terminal one last, has been handed to this channel's stream, which sent
\* nothing in return
C40_Witness ==
  /\ op.name = "receive" /\ ~op.return_addr
  /\ peer.serv[1].proto = "generator" /\ peer.serv[1].st = "finished"
  /\ peer.serv[1].items >= 1
  /\ delivered.frames[1] = Len(peer.serv[1].frames)
  /\ Len(gens[0].recvd) = Len(peer.serv[1].frames)
  /\ nsent.reply = 0 /\ nsent.request = 1

====
